---- MODULE Spec2Model ----
(***************************************************************************)
(* A model of the Jaaz/Artbox frontend: the chat interface (Chat.tsx), the  *)
(* realtime transport client (socket.ts), the canvas host                   *)
(* (CanvasExcali.tsx) with its pop-toolbar, resolution display and export   *)
(* menu, the project-brief form, the deletion of a canvas and the Event Bus *)
(* subscriptions.  Each component is a state machine of its own with its    *)
(* own specification; the variables of the other components stay unchanged  *)
(* in it.                                                                   *)
(***************************************************************************)
EXTENDS Integers, Sequences, FiniteSets, TLC

VARIABLES
  \* ---- ChatInterface (Chat.tsx) ----
  sessionId,          \* session?.id of the active session, or NoSession
  messages,           \* the message timeline (useState<Message[]>)
  pending,            \* PendingType: "false" | "text" | "tool" | "image"
  toolCallMessages,   \* tool-call ids of the `messages` value closed over by
                      \* handleToolCall (all the callback reads of it)
  expandingToolCalls, \* ids of the tool calls shown expanded
  timers,             \* armed setTimeout callbacks: [kind, remaining ms]
  fetches,            \* session ids whose history fetch (initChat) is in flight
  issued,             \* REST calls issued by the handler that ran last
  \* ---- ChatTextarea (ChatTextarea.tsx) ----
  prompt,             \* useState(''): the text typed
  images,             \* useState([]): file ids of the attached images
  textModel,          \* useConfigs().textModel, "none" if none is selected
  cancelling,         \* is a cancelChat call awaited by handleCancelChat?
  \* ---- SocketIOManager (socket.ts) ----
  socket,             \* this.socket: 0 for null, else the number of the
                      \* connect() call that created the socket
  socketState,        \* the library's state of that socket
  failures,           \* the library's count of failed attempts in a row
  connected,          \* this.connected
  reconnectAttempts,  \* this.reconnectAttempts
  promises,           \* promises[i]: the promise returned by the i-th connect()
  lastFrame,          \* the frame handled by the step that ran last
  emitted,            \* the Event Bus emissions of the step that ran last
  lastTask,           \* the task_notification frame handled by that step
  sent,               \* the frames sent to the server by that step
  openSockets,        \* the sockets created and not disconnected by the client
  \* ---- CanvasExcali (CanvasExcali.tsx) ----
  sceneElements,      \* excalidrawAPI.getSceneElements()
  sceneFiles,         \* ids of the files of excalidrawAPI.getFiles()
  appState,           \* the canvas engine's application state
  recentlyAddedImage, \* useState<string | null>, "null" for null
  saveTimers,         \* armed timers of the debounced handleChange
  insertions,         \* addImageToExcalidraw calls suspended at their await
  imageLoads,         \* images loading for handleImageSizeAdjustment
  saved,              \* saveCanvas calls issued by the step that ran last
  initCanvas,         \* useConfigs().initCanvas: is the canvas pristine?
  sizeChecks,         \* armed 100 ms timers of the paste and drop handlers
  \* ---- CanvasPopbar (pop-bar/CanvasPopbar.tsx) ----
  selectedImages,     \* ids of the image elements selected on the canvas
  splitCalls,         \* splitLayers calls awaited by handleSplitLayers
  submitted,          \* has a split-layers request been submitted?
  toasts,             \* the toasts shown by the step that ran last
  \* ---- ImageResolutionDisplay (ImageResolutionDisplay.tsx) ----
  resolutionInfo,     \* useState<ResolutionInfo | null>
  isEditing,          \* useState(false), mirrored by isEditingRef
  newWidth,           \* useState<string>(''): the width input
  newHeight,          \* useState<string>(''): the height input
  keepRatio,          \* useState(true)
  originalRatio,      \* useState(1): width / height, kept as the pair
  openedFor,          \* id of the element the popover was opened for
  resizes,            \* number of resizes applied
  \* ---- Session selection of the chat interface (Chat.tsx) ----
  sessionList,        \* the prop sessionList
  session,            \* useState<Session | null>(null)
  searchSessionId,    \* search.sessionId || ''
  url,                \* the sessionId parameter of the page URL
  effectDeps,         \* [sessionList, searchSessionId] as of the last run of
                      \* the effect that derives the session
  lastClick,          \* the control the user activated last
  \* ---- The canvas id of the canvas host (CanvasExcali.tsx) ----
  canvasId,           \* the prop canvasId as of the last render
  generatedCanvasId,  \* the canvasId closed over by the memoised
                      \* handleImageGenerated
  \* ---- CanvasExport (the export menu of the canvas) ----
  selectionOrder,     \* the keys of appState.selectedElementIds whose value
                      \* is true, in the order of Object.keys
  downloads,          \* the files saved (saveAs) by the step that ran last
  exportToasts,       \* the toast calls of the step that ran last
  \* ---- ProjectFormDialog (the project-brief form) ----
  formData,           \* useState<ProjectFormData>
  formOpen,           \* the prop open, state of the parent
  onSubmitCalls,      \* the data onSubmit was called with by the last step
  formToasts,         \* the toasts shown by the step that ran last
  \* ---- HomeHeader: deletion of a canvas ----
  deleteDialogOpen,   \* useState(false)
  canvasToDelete,     \* useState<{id, name} | null>: the id, "null" for null
  deleteOpenedFor,    \* the canvas whose delete control was clicked last
  deleteCalls,        \* deleteCalls[id]: the deleteCanvas(id) calls awaited
  deleteIssued,       \* the deleteCanvas calls issued by the last step
  deleteOutcome,      \* the way the call ended that the last step handled
  deleteToasts,       \* the toasts shown by the step that ran last
  invalidated,        \* was the canvas list invalidated by the last step?
  \* ---- Event Bus subscriptions of the components ----
  busHandlers,        \* busHandlers[topic]: the handlers registered, in order
  isMounted,          \* isMounted[c]: is component c mounted?
  mounts,             \* mounts[c]: the number of the instance of c
  renders,            \* renders[c]: the number of the last render of it
  currentHandlers,    \* the handler functions of the last render of c
  registeredHandlers, \* the handler functions closed over by the effect of c
                      \* that ran last
  \* ---- History of the turns of the chat ----
  sinceDelta,         \* has pending been "text" without a break since the
                      \* delta handled last for the active session?
  \* ---- History of the resizes of a user ----
  userSized,          \* the resizes a user has applied: the id of the element
                      \* and the image loads under way at that moment
  \* ---- Canvas route (canvas.$id.tsx) ----
  routeId,            \* the id parameter of the route
  routeMounted,       \* is the route mounted?
  canvas,             \* useState<any>(null): the canvas fetched
  isLoading,          \* useState(true)
  error,              \* useState<Error | null>(null)
  canvasName,         \* useState('')
  canvasSessionList,  \* useState<Session[]>([]) of the route
  canvasFetches,      \* the getCanvas calls under way: the id, the run of the
                      \* effect that made the call and its mounted flag
  effectRun,          \* the number of the run of the effect made last
  lastSettled,        \* the fetch the last step settled, if it settled one
  loadedFrom,         \* the canvas whose data the host was mounted with
  originated          \* the scenes armed for saving for the canvas they were
                      \* loaded from, with the id of that canvas

chatVars == <<sessionId, messages, pending, toolCallMessages,
              expandingToolCalls, timers, fetches, issued>>

socketVars == <<socket, socketState, failures, connected, reconnectAttempts,
                promises, lastFrame, emitted, lastTask, sent, openSockets>>

canvasVars == <<sceneElements, sceneFiles, appState, recentlyAddedImage,
                saveTimers, insertions, imageLoads, saved, initCanvas,
                sizeChecks>>

textareaVars == <<prompt, images, textModel, cancelling>>

popbarVars == <<selectedImages, splitCalls, submitted, toasts>>

resolutionVars == <<resolutionInfo, isEditing, newWidth, newHeight, keepRatio,
                    originalRatio, openedFor, resizes>>

sessionVars == <<sessionList, session, searchSessionId, url, effectDeps,
                 lastClick>>

hostVars == <<canvasId, generatedCanvasId>>

exportVars == <<selectionOrder, downloads, exportToasts>>

formVars == <<formData, formOpen, onSubmitCalls, formToasts>>

busVars == <<busHandlers, isMounted, mounts, renders, currentHandlers,
             registeredHandlers>>

turnVars == <<sinceDelta>>

resizeVars == <<userSized>>

routeVars == <<routeId, routeMounted, canvas, isLoading, error, canvasName,
               canvasSessionList, canvasFetches, effectRun, lastSettled,
               loadedFrom, originated>>

deleteVars == <<deleteDialogOpen, canvasToDelete, deleteOpenedFor, deleteCalls,
                deleteIssued, deleteOutcome, deleteToasts, invalidated>>

vars == <<chatVars, textareaVars, socketVars, canvasVars, popbarVars,
          resolutionVars, sessionVars,
          hostVars,
          exportVars,
          formVars,
          deleteVars,
          busVars,
          turnVars,
          resizeVars,
          routeVars>>

----------------------------------------------------------------------------
(* Bounds of the model *)

MaxMessages == 2
MaxText == 2
MaxTimers == 1
MaxConnects == 3
MaxElements == 3
MaxLoads == 1
MaxImages == 1
MaxSizeChecks == 1
MaxSplitCalls == 1
MaxDim == 3
MaxResizes == 1
MaxSessions == 3
MaxFormText == 2
MaxImageCount == 2
MaxDeleteCalls == 3
MaxMounts == 2
MaxRenders == 2
MaxEffectRuns == 3

----------------------------------------------------------------------------
(* Values *)

NoSession == "none"
Sessions == {"s1", "s2"}
CanvasId == "c1"
CanvasIds == {"c1", "c2"}
ToolCallIds == {"t1", "t2"}
Texts == {"a"}
Prompts == {"", "a"}
ImageFileIds == {"f1"}
TextModels == {"gpt-4o"}
NoModel == "none"

DeltaFailsafeMs == 20000
ImageFailsafeMs == 5000
TickMs == ImageFailsafeMs

NullContent == [kind |-> "null", text |-> "", parts |-> <<>>]
StringContent(s) == [kind |-> "string", text |-> s, parts |-> <<>>]
PartsContent(ps) == [kind |-> "parts", text |-> "", parts |-> ps]
TextPart(s) == [type |-> "text", text |-> s]
ImagePart == [type |-> "image_url", text |-> ""]

NoToolCalls == [isNull |-> TRUE, calls |-> <<>>]
ToolCalls(cs) == [isNull |-> FALSE, calls |-> cs]
ToolCall(id, args) ==
  [id |-> id, name |-> "generate_image", arguments |-> args]

UserMessage(c) == [role |-> "user", content |-> c, tool_calls |-> NoToolCalls]
AssistantMessage(c, tc) == [role |-> "assistant", content |-> c, tool_calls |-> tc]

\* Message lists the backend may hold for a session (GET /api/chat_session/{id},
\* and the all_messages snapshot).
Histories ==
  { <<>>,
    << UserMessage(StringContent("a")),
       AssistantMessage(NullContent, ToolCalls(<<ToolCall("t1", "a")>>)) >>,
    << UserMessage(StringContent("a")),
       AssistantMessage(PartsContent(<<TextPart("a")>>), NoToolCalls) >>,
    << UserMessage(PartsContent(<<TextPart("a"), ImagePart>>)),
       AssistantMessage(PartsContent(<<TextPart("a"), ImagePart>>), NoToolCalls) >> }

Last(s) == s[Len(s)]

----------------------------------------------------------------------------
(* ChatInterface *)

\* A handler that returns early: it issues no call and changes no state.
NoOp ==
  /\ issued' = <<>>
  /\ UNCHANGED <<sessionId, messages, pending, toolCallMessages,
                 expandingToolCalls, timers, fetches>>

\* The session filter of the realtime handlers.
OtherSession(session_id) == session_id # "" /\ session_id # sessionId

\* Does message m carry a tool call with this id?
HasToolCall(m, id) ==
  /\ m.role = "assistant"
  /\ ~m.tool_calls.isNull
  /\ \E i \in 1..Len(m.tool_calls.calls) : m.tool_calls.calls[i].id = id

\* The ids of the tool calls carried by a message list.
ToolCallIdsOf(msgs) ==
  {id \in ToolCallIds : \E i \in 1..Len(msgs) : HasToolCall(msgs[i], id)}

\* setTimeout(cb, ms)
SetTimeout(kind, ms) == timers \cup {[kind |-> kind, remaining |-> ms]}

\* The produce() recipe of handleDelta applied to the timeline prev.
DeltaRecipe(prev, text) ==
  IF /\ Len(prev) > 0
     /\ Last(prev).role = "assistant"
     /\ Last(prev).content.kind # "null"
     /\ Last(prev).tool_calls.isNull
  THEN LET last == Last(prev)
           n == Len(last.content.parts)
       IN IF last.content.kind = "string"
          THEN [prev EXCEPT ![Len(prev)].content.text = @ \o text]
          ELSE IF n > 0 /\ last.content.parts[n].type = "text"
               THEN [prev EXCEPT ![Len(prev)].content.parts[n].text = @ \o text]
               ELSE prev
  ELSE Append(prev, AssistantMessage(StringContent(text), NoToolCalls))

\* The text the recipe is about to extend (bounds the streamed strings).
TrailingText(prev) ==
  IF Len(prev) = 0 THEN ""
  ELSE LET c == Last(prev).content
       IN IF c.kind = "string" THEN c.text
          ELSE IF c.kind = "parts" /\ Len(c.parts) > 0 THEN c.parts[Len(c.parts)].text
               ELSE ""

HandleDelta(session_id, text) ==
  /\ Cardinality(SetTimeout("delta", DeltaFailsafeMs)) <= MaxTimers
  /\ Len(DeltaRecipe(messages, text)) <= MaxMessages
  /\ Len(TrailingText(DeltaRecipe(messages, text))) <= MaxText
  /\ IF OtherSession(session_id)
     THEN NoOp
     ELSE /\ pending' = "text"
          /\ timers' = SetTimeout("delta", DeltaFailsafeMs)
          /\ messages' = DeltaRecipe(messages, text)
          /\ issued' = <<>>
          /\ UNCHANGED <<sessionId, toolCallMessages, expandingToolCalls, fetches>>

\* handleToolCall: the duplicate check reads the `messages` of the render in
\* which the callback was created (useCallback deps: [sessionId]).
HandleToolCall(session_id, id) ==
  /\ Len(messages) < MaxMessages
  /\ IF OtherSession(session_id)
     THEN NoOp
     ELSE IF id \in toolCallMessages
          THEN NoOp
          ELSE /\ pending' = "tool"
               /\ messages' = Append(messages,
                     AssistantMessage(StringContent(""), ToolCalls(<<ToolCall(id, "")>>)))
               /\ expandingToolCalls' = expandingToolCalls \cup {id}
               /\ issued' = <<>>
               /\ UNCHANGED <<sessionId, toolCallMessages, timers, fetches>>

\* Index of the first message carrying the tool call id, 0 when there is none
\* (prev.find).
FindToolCallMessage(prev, id) ==
  IF \E i \in 1..Len(prev) : HasToolCall(prev[i], id)
  THEN CHOOSE i \in 1..Len(prev) :
         /\ HasToolCall(prev[i], id)
         /\ \A j \in 1..(i - 1) : ~HasToolCall(prev[j], id)
  ELSE 0

\* Index of the first tool call with this id in a tool_calls array (find).
FindToolCall(calls, id) ==
  CHOOSE k \in 1..Len(calls) :
    /\ calls[k].id = id
    /\ \A j \in 1..(k - 1) : calls[j].id # id

\* The produce() recipe of handleToolCallArguments.
ToolCallArgumentsRecipe(prev, id, text) ==
  LET i == FindToolCallMessage(prev, id)
  IN IF i = 0 THEN prev
     ELSE LET k == FindToolCall(prev[i].tool_calls.calls, id)
          IN [prev EXCEPT ![i].tool_calls.calls[k].arguments = @ \o text]

\* The argument string the recipe is about to extend.
ToolCallArgumentsOf(prev, id) ==
  LET i == FindToolCallMessage(prev, id)
  IN IF i = 0 THEN ""
     ELSE prev[i].tool_calls.calls[FindToolCall(prev[i].tool_calls.calls, id)].arguments

HandleToolCallArguments(session_id, id, text) ==
  /\ Len(ToolCallArgumentsOf(messages, id)) < MaxText
  /\ IF OtherSession(session_id)
     THEN NoOp
     ELSE /\ pending' = "tool"
          /\ messages' = ToolCallArgumentsRecipe(messages, id, text)
          /\ issued' = <<>>
          /\ UNCHANGED <<sessionId, toolCallMessages, expandingToolCalls, timers, fetches>>

\* The filter of the chat's handleImageGenerated.
ImageGeneratedIgnored(canvas_id, session_id) ==
  canvas_id # "" /\ canvas_id # CanvasId /\ session_id # sessionId

HandleImageGenerated(canvas_id, session_id) ==
  /\ Cardinality(SetTimeout("image", ImageFailsafeMs)) <= MaxTimers
  /\ IF ImageGeneratedIgnored(canvas_id, session_id)
     THEN NoOp
     ELSE /\ pending' = "image"
          /\ timers' = SetTimeout("image", ImageFailsafeMs)
          /\ issued' = <<>>
          /\ UNCHANGED <<sessionId, messages, toolCallMessages, expandingToolCalls, fetches>>

HandleAllMessages(session_id, msgs) ==
  IF OtherSession(session_id)
  THEN NoOp
  ELSE /\ messages' = msgs
       /\ issued' = <<>>
       /\ UNCHANGED <<sessionId, pending, toolCallMessages, expandingToolCalls, timers, fetches>>

HandleDone(session_id) ==
  IF OtherSession(session_id)
  THEN NoOp
  ELSE /\ pending' = "false"
       /\ issued' = <<>>
       /\ UNCHANGED <<sessionId, messages, toolCallMessages, expandingToolCalls, timers, fetches>>

\* handleError with the session filter of the other handlers.
HandleErrorFiltered(session_id) ==
  IF OtherSession(session_id)
  THEN NoOp
  ELSE /\ pending' = "false"
       /\ issued' = <<>>
       /\ UNCHANGED <<sessionId, messages, toolCallMessages, expandingToolCalls, timers, fetches>>

HandleError(session_id) ==
  /\ pending' = "false"
  /\ issued' = <<>>
  /\ UNCHANGED <<sessionId, messages, toolCallMessages, expandingToolCalls, timers, fetches>>

HandleInfo(session_id) == NoOp

\* DeltaTimeout with the guard dropped: the callback resets whatever state
\* it finds.
DeltaTimeoutAlways(currentPending) == "false"

\* The callback of the 20 s timer armed by handleDelta.
DeltaTimeout(currentPending) ==
  IF currentPending = "text" THEN "false" ELSE currentPending

\* The callback of the 5 s timer armed by handleImageGenerated.
ImageTimeout(currentPending) ==
  IF currentPending = "image" THEN "false" ELSE currentPending

\* A due timer runs its callback; nothing ever clears one (the function
\* handleDelta returns is dropped by the event bus).
TimerFire(t) ==
  /\ t \in timers
  /\ t.remaining = 0
  /\ timers' = timers \ {t}
  /\ pending' = IF t.kind = "delta" THEN DeltaTimeout(pending)
                                    ELSE ImageTimeout(pending)
  /\ issued' = <<>>
  /\ UNCHANGED <<sessionId, messages, toolCallMessages, expandingToolCalls, fetches>>

\* Time passes, but never past a due timer.
Tick ==
  /\ timers # {}
  /\ \A t \in timers : t.remaining >= TickMs
  /\ timers' = {[t EXCEPT !.remaining = @ - TickMs] : t \in timers}
  /\ issued' = <<>>
  /\ UNCHANGED <<sessionId, messages, pending, toolCallMessages, expandingToolCalls, fetches>>

\* setSession (the session-derivation effect or onSelectSession): the render
\* with the new sessionId recreates the callbacks and runs initChat, which
\* starts the history fetch.
SelectSession(s) ==
  /\ s # sessionId
  /\ sessionId' = s
  /\ toolCallMessages' = ToolCallIdsOf(messages)
  /\ fetches' = fetches \cup {s}
  /\ issued' = <<>>
  /\ UNCHANGED <<messages, pending, expandingToolCalls, timers>>

\* The continuation of initChat after its awaits: setMessages(msgs).
InitChatDone(s, data) ==
  /\ s \in fetches
  /\ fetches' = fetches \ {s}
  /\ messages' = data
  /\ issued' = <<>>
  /\ UNCHANGED <<sessionId, pending, toolCallMessages, expandingToolCalls, timers>>

\* MessagesWithThinking with the guard dropped: the placeholder is pushed
\* unconditionally.
MessagesWithThinkingAlways(data) ==
  Append(data, AssistantMessage(StringContent(""), NoToolCalls))

\* messagesWithThinking of onSendMessages.
MessagesWithThinking(data) ==
  IF Len(data) = 0 \/ Last(data).role # "assistant"
  THEN Append(data, AssistantMessage(StringContent(""), NoToolCalls))
  ELSE data

OnSendMessages(data) ==
  /\ pending' = "text"
  /\ messages' = MessagesWithThinking(data)
  /\ issued' = <<[api |-> "send_messages", sessionId |-> sessionId,
                 canvasId |-> CanvasId, newMessages |-> data]>>
  /\ UNCHANGED <<sessionId, toolCallMessages, expandingToolCalls, timers, fetches>>

\* The chat interface's handleCancelChat.
HandleCancelChat ==
  /\ pending' = "false"
  /\ issued' = <<>>
  /\ UNCHANGED <<sessionId, messages, toolCallMessages, expandingToolCalls, timers, fetches>>

ChatInit ==
  /\ sessionId = NoSession
  /\ messages = <<>>
  /\ pending = "false"
  /\ toolCallMessages = {}
  /\ expandingToolCalls = {}
  /\ timers = {}
  /\ fetches = {}
  /\ issued = <<>>

ChatEvents ==
  \/ \E s \in Sessions, t \in Texts : HandleDelta(s, t)
  \/ \E s \in Sessions, id \in ToolCallIds : HandleToolCall(s, id)
  \/ \E s \in Sessions, id \in ToolCallIds, t \in Texts :
       HandleToolCallArguments(s, id, t)
  \/ \E c \in CanvasIds, s \in Sessions : HandleImageGenerated(c, s)
  \/ \E s \in Sessions, h \in Histories : HandleAllMessages(s, h)
  \/ \E s \in Sessions : HandleDone(s)
  \/ \E s \in Sessions : HandleError(s)
  \/ \E s \in Sessions : HandleInfo(s)
  \/ \E t \in timers : TimerFire(t)
  \/ Tick
  \/ \E s \in Sessions : SelectSession(s)
  \/ \E s \in Sessions, h \in Histories : InitChatDone(s, h)

----------------------------------------------------------------------------
(* ChatTextarea (ChatTextarea.tsx), mounted in the chat interface *)

\* The reference appended to the text sent for an attached image.
ImageReference(file_id) == "![" \o file_id \o "]"

RECURSIVE ImageReferences(_)
ImageReferences(imgs) ==
  IF imgs = <<>> THEN ""
  ELSE ImageReference(imgs[1]) \o ImageReferences(Tail(imgs))

\* value of handleSendPrompt: the prompt and a reference per attached image.
PromptValue == prompt \o ImageReferences(images)

\* value.trim() === ''
IsBlank(value) == value \in {"", " "}

\* newMessage of handleSendPrompt.
NewMessage ==
  IF ~IsBlank(PromptValue)
  THEN Append(messages, UserMessage(StringContent(PromptValue)))
  ELSE messages

\* onChange of the textarea: setPrompt(e.target.value)
SetPrompt(value) ==
  /\ value # prompt
  /\ prompt' = value
  /\ issued' = <<>>
  /\ UNCHANGED <<sessionId, messages, pending, toolCallMessages,
                 expandingToolCalls, timers, fetches>>
  /\ UNCHANGED <<images, textModel, cancelling>>

\* onSuccess of uploadImageMutation: the uploaded image is attached.
UploadImageSuccess(file_id) ==
  /\ Len(images) < MaxImages
  /\ images' = Append(images, file_id)
  /\ issued' = <<>>
  /\ UNCHANGED <<sessionId, messages, pending, toolCallMessages,
                 expandingToolCalls, timers, fetches>>
  /\ UNCHANGED <<prompt, textModel, cancelling>>

\* The remove control of an attached image.
RemoveImage(file_id) ==
  /\ \E i \in 1..Len(images) : images[i] = file_id
  /\ images' = SelectSeq(images, LAMBDA f : f # file_id)
  /\ issued' = <<>>
  /\ UNCHANGED <<sessionId, messages, pending, toolCallMessages,
                 expandingToolCalls, timers, fetches>>
  /\ UNCHANGED <<prompt, textModel, cancelling>>

\* The configuration context sets the selected text model.
SetTextModel(model) ==
  /\ model # textModel
  /\ textModel' = model
  /\ issued' = <<>>
  /\ UNCHANGED <<sessionId, messages, pending, toolCallMessages,
                 expandingToolCalls, timers, fetches>>
  /\ UNCHANGED <<prompt, images, cancelling>>

\* The send guard of handleSendPrompt with the test of pending dropped.
SendBlockedNoPending == textModel = NoModel

\* if (pending) return; if (!textModel) { toast.error(...); return }
SendBlocked == pending # "false" \/ textModel = NoModel

\* handleSendPrompt
HandleSendPrompt ==
  /\ Len(MessagesWithThinking(NewMessage)) <= MaxMessages
  /\ IF SendBlocked
     THEN NoOp /\ UNCHANGED <<prompt, images>>
     ELSE /\ images' = <<>>
          /\ prompt' = ""
          /\ IF sessionId # NoSession
             THEN OnSendMessages(NewMessage)
             ELSE /\ issued' = <<[api |-> "create_canvas", sessionId |-> NoSession,
                                   canvasId |-> "", newMessages |-> NewMessage]>>
                  /\ UNCHANGED <<sessionId, messages, pending, toolCallMessages,
                                 expandingToolCalls, timers, fetches>>
  /\ UNCHANGED <<textModel, cancelling>>

\* The outcomes of the cancelChat call.
CancelChatOutcomes == {"resolved", "rejected"}

\* handleCancelChat of the textarea up to its await: the stop control, shown
\* while pending, is activated.
TextareaHandleCancelChat ==
  /\ pending # "false"
  /\ ~cancelling
  /\ UNCHANGED <<prompt, images, textModel>>
  /\ IF sessionId # NoSession
     THEN /\ cancelling' = TRUE
          /\ issued' = <<[api |-> "cancel_chat", sessionId |-> sessionId,
                         canvasId |-> "", newMessages |-> <<>>]>>
          /\ UNCHANGED <<sessionId, messages, pending, toolCallMessages,
                         expandingToolCalls, timers, fetches>>
     ELSE /\ HandleCancelChat
          /\ UNCHANGED cancelling

\* handleCancelChat of the textarea after its await: onCancelChat?.() if
\* the call resolved; a rejection is thrown out of the handler.
CancelChatSettled(outcome) ==
  /\ cancelling
  /\ cancelling' = FALSE
  /\ UNCHANGED <<prompt, images, textModel>>
  /\ IF outcome = "resolved" THEN HandleCancelChat ELSE NoOp

TextareaInit ==
  /\ prompt = ""
  /\ images = <<>>
  /\ textModel \in TextModels
  /\ cancelling = FALSE

\* The events of the chat interface and the textarea's send control.
ChatNext ==
  \/ ChatEvents /\ UNCHANGED textareaVars
  \/ HandleSendPrompt

\* The textarea with all its controls, in a chat interface that receives
\* the events that change pending.
TextareaNext ==
  \/ \E v \in Prompts : SetPrompt(v)
  \/ \E f \in ImageFileIds : UploadImageSuccess(f)
  \/ \E f \in ImageFileIds : RemoveImage(f)
  \/ \E m \in TextModels \cup {NoModel} : SetTextModel(m)
  \/ HandleSendPrompt
  \/ TextareaHandleCancelChat
  \/ \E o \in CancelChatOutcomes : CancelChatSettled(o)
  \/ /\ \/ \E s \in Sessions : SelectSession(s)
        \/ \E s \in Sessions, h \in Histories : InitChatDone(s, h)
        \/ \E s \in Sessions, id \in ToolCallIds : HandleToolCall(s, id)
        \/ \E s \in Sessions : HandleDone(s)
     /\ UNCHANGED textareaVars

\* The turns of a chat: deltas, terminal events, sends and the failsafe
\* timers, with the history of pending since the latest delta.
TurnsNext ==
  \/ /\ \E s \in Sessions, t \in Texts :
          /\ HandleDelta(s, t)
          /\ sinceDelta' = IF OtherSession(s) THEN sinceDelta ELSE TRUE
     /\ UNCHANGED textareaVars
  \/ /\ \/ \E s \in Sessions : HandleDone(s)
        \/ \E s \in Sessions : HandleError(s)
        \/ \E t \in timers : TimerFire(t)
        \/ Tick
        \/ \E s \in Sessions : SelectSession(s)
     /\ sinceDelta' = (sinceDelta /\ pending' = pending)
     /\ UNCHANGED textareaVars
  \/ /\ \E v \in Prompts : SetPrompt(v)
     /\ UNCHANGED sinceDelta
  \/ /\ HandleSendPrompt
     /\ sinceDelta' = (sinceDelta /\ pending' = pending)

TurnsInit == sinceDelta = FALSE

----------------------------------------------------------------------------
(* SocketIOManager (socket.ts) *)

maxReconnectAttempts == 5

SessionEventType ==
  {"error", "done", "info", "image_generated", "delta", "tool_call",
   "tool_call_arguments", "all_messages", "tool_call_progress", "layer_added"}

\* The types of the frames delivered: the known tags and one unknown tag.
FrameTypes == SessionEventType \cup {"unknown"}

\* The session ids of the frames delivered; "" is a missing session id.
FrameSessionIds == {"", "s1"}

SessionUpdateFrames == [type : FrameTypes, session_id : FrameSessionIds]

NoFrame == [type |-> "none", session_id |-> ""]

Emit(topic, data) == [topic |-> topic, payload |-> data]

\* MissingSessionId with the test dropped: no frame is taken to lack its
\* session id.
MissingSessionIdNever(data) == FALSE

\* !session_id
MissingSessionId(data) == data.session_id = ""

\* handleSessionUpdate: the Event Bus emissions made for the frame data.
HandleSessionUpdate(data) ==
  IF MissingSessionId(data) THEN <<>>
  ELSE CASE data.type = "delta" -> <<Emit("Socket::Session::Delta", data)>>
         [] data.type = "tool_call" -> <<Emit("Socket::Session::ToolCall", data)>>
         [] data.type = "tool_call_arguments" ->
              <<Emit("Socket::Session::ToolCallArguments", data)>>
         [] data.type = "tool_call_progress" ->
              <<Emit("Socket::Session::ToolCallProgress", data)>>
         [] data.type = "image_generated" ->
              <<Emit("Socket::Session::ImageGenerated", data)>>
         [] data.type = "all_messages" ->
              <<Emit("Socket::Session::AllMessages", data)>>
         [] data.type = "done" -> <<Emit("Socket::Session::Done", data)>>
         [] data.type = "error" -> <<Emit("Socket::Session::Error", data)>>
         [] data.type = "info" -> <<Emit("Socket::Session::Info", data)>>
         [] data.type = "layer_added" ->
              <<Emit("Socket::Session::LayerAdded", data)>>
         [] OTHER -> <<>>

\* The frames of the task_notification channel.
TaskFrameTypes == {"split_layers_success", "task_update"}
TaskTypes == {"split_layers", "upscale"}
TaskStatuses ==
  {"pending", "running", "completed", "failed", "cancelled", "queued"}
Percentages == {0, 50, 100}
TaskNotificationFrames ==
  [type : TaskFrameTypes, task_type : TaskTypes, status : TaskStatuses,
   canvas_id : CanvasIds, percentage : Percentages]

NoTask ==
  [type |-> "none", task_type |-> "", status |-> "", canvas_id |-> "",
   percentage |-> 0]

\* The switch on the status with every case emitting as its default does.
StatusTopicDefault(status) == "Canvas::TaskProgress"

\* switch (data.status) of handleTaskNotification
StatusTopic(status) ==
  CASE status = "pending" -> "Canvas::SplitLayersStarted"
    [] status = "running" -> "Canvas::TaskProgress"
    [] status = "completed" -> "Canvas::SplitLayersSuccess"
    [] status = "failed" -> "Canvas::SplitLayersError"
    [] status = "cancelled" -> "Canvas::SplitLayersCancelled"
    [] OTHER -> "Canvas::TaskProgress"

\* handleTaskNotification: the Event Bus emissions made for the frame data.
HandleTaskNotification(data) ==
  IF data.type = "split_layers_success"
  THEN <<Emit("Canvas::SplitLayersSuccess", data),
         Emit("Canvas::AdjustView", [canvas_id |-> data.canvas_id])>>
  ELSE IF data.task_type = "split_layers"
       THEN <<Emit(StatusTopic(data.status), data)>>
       ELSE <<Emit("Task::Notification", data)>>

\* No frame is handled by the step, and none is sent.
NoFrameHandled ==
  /\ lastFrame' = NoFrame
  /\ lastTask' = NoTask
  /\ emitted' = <<>>
  /\ sent' = <<>>

\* if (this.socket) this.socket.disconnect(), left out.
DisconnectOwnedNever(open) == open

\* if (this.socket) this.socket.disconnect()
DisconnectOwned(open) == open \ {socket}

\* reject(...) and resolve(true) settle a promise that is still pending.
Settle(ps, i, outcome) ==
  IF ps[i] = "pending" THEN [ps EXCEPT ![i] = outcome] ELSE ps

\* connect(): disconnects the socket held, if any, and creates a new one.  A
\* socket disconnected by the client runs its 'disconnect' handler if it was
\* connected and delivers nothing afterwards.
Connect ==
  /\ Len(promises) < MaxConnects
  /\ socket' = Len(promises) + 1
  /\ socketState' = "connecting"
  /\ failures' = 0
  /\ connected' = IF socket # 0 /\ socketState = "connected" THEN FALSE
                  ELSE connected
  /\ promises' = Append(promises, "pending")
  /\ openSockets' = DisconnectOwned(openSockets) \cup {Len(promises) + 1}
  /\ NoFrameHandled
  /\ UNCHANGED reconnectAttempts

\* this.reconnectAttempts = 0 of the 'connect' handler, left out.
AttemptsOnConnectKept(n) == n

\* this.reconnectAttempts = 0 of the 'connect' handler.
AttemptsOnConnect(n) == 0

\* The 'connect' handler of the socket held.
OnConnect ==
  /\ socket # 0
  /\ socketState = "connecting"
  /\ socketState' = "connected"
  /\ failures' = 0
  /\ connected' = TRUE
  /\ reconnectAttempts' = AttemptsOnConnect(reconnectAttempts)
  /\ promises' = Settle(promises, socket, "resolved")
  /\ NoFrameHandled
  /\ UNCHANGED <<socket, openSockets>>

\* The 'connect_error' handler of the socket held.  The library reports the
\* failure of the first attempt and of each of its reconnection attempts,
\* of which it makes reconnectionAttempts in a row.
OnConnectError ==
  /\ socket # 0
  /\ socketState = "connecting"
  /\ failures <= maxReconnectAttempts
  /\ failures' = failures + 1
  /\ connected' = FALSE
  /\ reconnectAttempts' = reconnectAttempts + 1
  /\ promises' = IF reconnectAttempts + 1 >= maxReconnectAttempts
                 THEN Settle(promises, socket, "rejected")
                 ELSE promises
  /\ NoFrameHandled
  /\ UNCHANGED <<socket, socketState, openSockets>>

\* The 'disconnect' handler of the socket held, the connection being lost:
\* the library goes on to reconnect.
OnDisconnect ==
  /\ socket # 0
  /\ socketState = "connected"
  /\ socketState' = "connecting"
  /\ connected' = FALSE
  /\ NoFrameHandled
  /\ UNCHANGED <<socket, failures, reconnectAttempts, promises, openSockets>>

\* disconnect()
Disconnect ==
  /\ IF socket # 0
     THEN /\ socket' = 0
          /\ socketState' = "closed"
          /\ failures' = 0
          /\ connected' = FALSE
          /\ openSockets' = DisconnectOwned(openSockets)
     ELSE UNCHANGED <<socket, socketState, failures, connected, openSockets>>
  /\ NoFrameHandled
  /\ UNCHANGED <<reconnectAttempts, promises>>

\* The 'session_update' handler of the socket held.
OnSessionUpdate(data) ==
  /\ socket # 0
  /\ socketState = "connected"
  /\ lastFrame' = data
  /\ lastTask' = NoTask
  /\ emitted' = HandleSessionUpdate(data)
  /\ sent' = <<>>
  /\ UNCHANGED <<socket, socketState, failures, connected, reconnectAttempts,
                 promises, openSockets>>

\* The 'task_notification' handler of the socket held.
OnTaskNotification(data) ==
  /\ socket # 0
  /\ socketState = "connected"
  /\ lastFrame' = NoFrame
  /\ lastTask' = data
  /\ emitted' = HandleTaskNotification(data)
  /\ sent' = <<>>
  /\ UNCHANGED <<socket, socketState, failures, connected, reconnectAttempts,
                 promises, openSockets>>

\* isMaxReconnectAttemptsReached()
IsMaxReconnectAttemptsReached == reconnectAttempts >= maxReconnectAttempts

\* The heartbeat payloads.
PingData == {"beat"}

\* The test of ping with this.connected left out.
CanPingWithSocket == socket # 0

\* this.socket && this.connected
CanPing == socket # 0 /\ connected

\* ping(data)
Ping(data) ==
  /\ sent' = IF CanPing THEN <<[event |-> "ping", data |-> data]>> ELSE <<>>
  /\ lastFrame' = NoFrame
  /\ lastTask' = NoTask
  /\ emitted' = <<>>
  /\ UNCHANGED <<socket, socketState, failures, connected, reconnectAttempts,
                 promises, openSockets>>

\* The exported socketManager after construction: autoConnect is not false,
\* so the constructor has called connect().
SocketInit ==
  /\ socket = 1
  /\ socketState = "connecting"
  /\ failures = 0
  /\ connected = FALSE
  /\ reconnectAttempts = 0
  /\ promises = <<"pending">>
  /\ lastFrame = NoFrame
  /\ emitted = <<>>
  /\ lastTask = NoTask
  /\ sent = <<>>
  /\ openSockets = {1}

SocketNext ==
  \/ Connect
  \/ OnConnect
  \/ OnConnectError
  \/ OnDisconnect
  \/ Disconnect
  \/ \E data \in SessionUpdateFrames : OnSessionUpdate(data)
  \/ \E data \in TaskNotificationFrames : OnTaskNotification(data)
  \/ \E data \in PingData : Ping(data)

----------------------------------------------------------------------------
(* CanvasExcali (CanvasExcali.tsx) *)

DebounceMs == 1000
DebounceTickMs == DebounceMs \div 2
NaturalWidth == 100
NaturalHeight == 100
SizeTolerance == 5

\* The elements and files delivered by image_generated and layer_added
\* events, and the element a user draws.  A remote file has a dataURL that
\* starts with '/api/'.
Element(id, type, fileId, width, height, updated) ==
  [id |-> id, type |-> type, fileId |-> fileId, width |-> width,
   height |-> height, updated |-> updated]
File(id, remote) == [id |-> id, remote |-> remote]
ImagePayloads ==
  { [element |-> Element("e1", "image", "f1", 105, 100, 1),
     file |-> File("f1", TRUE)],
    [element |-> Element("e2", "image", "f2", 50, 100, 2),
     file |-> File("f2", FALSE)],
    [element |-> Element("e1", "image", "f2", 100, 0, 2),
     file |-> File("f2", FALSE)] }
UserElement == Element("u1", "rectangle", "", 100, 100, 3)

\* clearTimeout(timeoutRef.current) left out: the timer armed before stays.
ClearTimeoutNever(ts) == ts

\* clearTimeout(timeoutRef.current)
ClearTimeout(ts) == {}

\* The debounced handleChange(elements, appState, files): the timer armed
\* before is cleared and one is armed that runs the callback of this render
\* on these arguments, with the canvasId of this render.
HandleChange(els, as, fs, recent) ==
  ClearTimeout(saveTimers) \cup
    {[remaining |-> DebounceMs, elements |-> els, appState |-> as,
      files |-> fs, recentlyAddedImage |-> recent, canvasId |-> canvasId]}

\* The scene becomes (els, as, fs) and the canvas engine calls onChange.
SceneChange(els, as, fs, recent) ==
  /\ sceneElements' = els
  /\ appState' = as
  /\ sceneFiles' = fs
  /\ saveTimers' = HandleChange(els, as, fs, recent)

\* ElementExists with the test dropped: no element is found in the scene.
ElementExistsNever(els, id) == FALSE

\* currentElements.some(el => el.id === imageElement.id)
ElementExists(els, id) == \E i \in 1..Len(els) : els[i].id = id

\* addImageToExcalidraw from its existence check on.
InsertImage(element, file) ==
  IF ElementExists(sceneElements, element.id)
  THEN UNCHANGED <<sceneElements, sceneFiles, appState, saveTimers>>
  ELSE SceneChange(Append(sceneElements, element), appState,
                   sceneFiles \cup {file.id}, recentlyAddedImage)

\* addImageToExcalidraw(imageElement, file) called through channel via: with
\* a remote file the call is suspended at its await of the HEAD request.
AddImageToExcalidraw(element, file, via) ==
  IF file.remote
  THEN /\ insertions' = insertions \cup
            {[element |-> element, file |-> file, via |-> via]}
       /\ UNCHANGED <<sceneElements, sceneFiles, appState, saveTimers>>
  ELSE /\ InsertImage(element, file)
       /\ UNCHANGED insertions

\* handleImageGenerated
CanvasHandleImageGenerated(canvas_id, p) ==
  /\ Len(sceneElements) < MaxElements
  /\ [element |-> p.element, file |-> p.file, via |-> "image_generated"]
       \notin insertions
  /\ saved' = <<>>
  /\ UNCHANGED <<recentlyAddedImage, imageLoads, initCanvas, sizeChecks>>
  /\ IF canvas_id # generatedCanvasId
     THEN UNCHANGED <<sceneElements, sceneFiles, appState, saveTimers, insertions>>
     ELSE AddImageToExcalidraw(p.element, p.file, "image_generated")

\* handleLayerAdded
HandleLayerAdded(canvas_id, p) ==
  /\ Len(sceneElements) < MaxElements
  /\ [element |-> p.element, file |-> p.file, via |-> "layer_added"]
       \notin insertions
  /\ saved' = <<>>
  /\ UNCHANGED <<recentlyAddedImage, imageLoads, initCanvas, sizeChecks>>
  /\ IF \/ canvas_id # canvasId
        \/ p.element.width <= 0
        \/ p.element.height <= 0
     THEN UNCHANGED <<sceneElements, sceneFiles, appState, saveTimers, insertions>>
     ELSE AddImageToExcalidraw(p.element, p.file, "layer_added")

\* A suspended addImageToExcalidraw call resumes after its await.
InsertResume(ins) ==
  /\ ins \in insertions
  /\ insertions' = insertions \ {ins}
  /\ InsertImage(ins.element, ins.file)
  /\ saved' = <<>>
  /\ UNCHANGED <<recentlyAddedImage, imageLoads, initCanvas, sizeChecks>>

\* useCallback(..., [addImageToExcalidraw]) of handleImageGenerated: the
\* callback of the render that created it is kept while excalidrawAPI stays
\* the same, so the canvasId it reads is the one of that render.
HostInit ==
  /\ canvasId = CanvasId
  /\ generatedCanvasId = canvasId

\* The parent renders the mounted host with another canvasId:
\* handleLayerAdded, with canvasId among its dependencies, is created again;
\* handleImageGenerated is not.
SetCanvasId(id) ==
  /\ id # canvasId
  /\ canvasId' = id
  /\ UNCHANGED generatedCanvasId

\* The user draws an element.
UserDraw ==
  /\ Len(sceneElements) < MaxElements
  /\ \A i \in 1..Len(sceneElements) : sceneElements[i].id # UserElement.id
  /\ SceneChange(Append(sceneElements, UserElement), appState, sceneFiles,
                 recentlyAddedImage)
  /\ saved' = <<>>
  /\ UNCHANGED <<recentlyAddedImage, insertions, imageLoads, initCanvas,
                 sizeChecks>>

\* The view changes (the user zooms, or the view is fitted to the content).
ViewChange ==
  /\ SceneChange(sceneElements, [appState EXCEPT !.zoom = 3 - @], sceneFiles,
                 recentlyAddedImage)
  /\ saved' = <<>>
  /\ UNCHANGED <<recentlyAddedImage, insertions, imageLoads, initCanvas,
                 sizeChecks>>

\* The user resets the canvas.
UserClear ==
  /\ sceneElements # <<>>
  /\ SceneChange(<<>>, appState, {}, recentlyAddedImage)
  /\ saved' = <<>>
  /\ UNCHANGED <<recentlyAddedImage, insertions, imageLoads, initCanvas,
                 sizeChecks>>

\* elements.filter(image).sort((a, b) => b.updated - a.updated)[0]: the
\* place of the first of the image elements updated last, 0 if there is none.
LatestImage(els) ==
  LET imgs == {i \in 1..Len(els) : els[i].type = "image"}
      top == {i \in imgs : \A j \in imgs : els[j].updated <= els[i].updated}
  IN IF imgs = {} THEN 0 ELSE CHOOSE i \in top : \A j \in top : i <= j

\* handleImageSizeAdjustment(elements, files) up to img.src: whether an
\* image is set to load.
StartsImageLoad(els, fs, recent) ==
  /\ els # <<>>
  /\ LatestImage(els) # 0
  /\ recent # els[LatestImage(els)].id
  /\ els[LatestImage(els)].fileId \in fs

\* handleImageSizeAdjustment(elements, files) of the render whose
\* recentlyAddedImage is recent.
HandleImageSizeAdjustment(els, fs, recent) ==
  IF StartsImageLoad(els, fs, recent)
  THEN /\ Cardinality(imageLoads) < MaxLoads
       /\ imageLoads' = imageLoads \cup
            {[elements |-> els, latestImage |-> els[LatestImage(els)]]}
       /\ recentlyAddedImage' = els[LatestImage(els)].id
  ELSE UNCHANGED <<recentlyAddedImage, imageLoads>>

\* { ...appState, collaborators: undefined }
WithoutCollaborators(as) == [as EXCEPT !.collaborators = "undefined"]

\* The thumbnail of a save: the dataURL of the latest image's file, if any.
Thumbnail(els, fs) ==
  IF LatestImage(els) # 0 /\ els[LatestImage(els)].fileId \in fs
  THEN els[LatestImage(els)].fileId ELSE ""

\* saveCanvas(canvasId, { data, thumbnail })
SaveCanvas(t) ==
  [canvasId |-> t.canvasId,
   elements |-> t.elements,
   appState |-> WithoutCollaborators(t.appState),
   files |-> t.files,
   thumbnail |-> Thumbnail(t.elements, t.files)]

\* The early return of the callback of handleChange, left out.
ChangeIgnoredNever(els) == FALSE

\* if (elements.length === 0 || !appState) return
ChangeIgnored(els) == els = <<>>

\* A timer of the debounced handleChange fires: the callback of handleChange.
SaveTimerFire(t) ==
  /\ t \in saveTimers
  /\ t.remaining = 0
  /\ saveTimers' = saveTimers \ {t}
  /\ IF ChangeIgnored(t.elements)
     THEN /\ saved' = <<>>
          /\ UNCHANGED <<recentlyAddedImage, imageLoads, initCanvas>>
     ELSE /\ initCanvas' = FALSE
          /\ HandleImageSizeAdjustment(t.elements, t.files,
                                       t.recentlyAddedImage)
          /\ saved' = <<SaveCanvas(t)>>
  /\ UNCHANGED <<sceneElements, sceneFiles, appState, insertions, sizeChecks>>

\* The size test with the height left out.
SizeDiffersInWidth(el) ==
  \/ el.width - NaturalWidth > SizeTolerance
  \/ NaturalWidth - el.width > SizeTolerance

\* Math.abs(latestImage.width - originalWidth) > 5 ||
\* Math.abs(latestImage.height - originalHeight) > 5
SizeDiffers(el) ==
  \/ el.width - NaturalWidth > SizeTolerance
  \/ NaturalWidth - el.width > SizeTolerance
  \/ el.height - NaturalHeight > SizeTolerance
  \/ NaturalHeight - el.height > SizeTolerance

\* elements.map(el => el.id === latestImage.id ? { ...el, width, height } : el)
AtNaturalSize(els, id) ==
  [i \in 1..Len(els) |->
     IF els[i].id = id
     THEN [els[i] EXCEPT !.width = NaturalWidth, !.height = NaturalHeight]
     ELSE els[i]]

\* img.onload of handleImageSizeAdjustment: the scene is replaced by the
\* elements the function was called with, the image at its natural size.
ImageLoaded(l) ==
  /\ l \in imageLoads
  /\ imageLoads' = imageLoads \ {l}
  /\ IF SizeDiffers(l.latestImage)
     THEN SceneChange(AtNaturalSize(l.elements, l.latestImage.id),
                      appState, sceneFiles, recentlyAddedImage)
     ELSE UNCHANGED <<sceneElements, sceneFiles, appState, saveTimers>>
  /\ saved' = <<>>
  /\ UNCHANGED <<recentlyAddedImage, insertions, initCanvas, sizeChecks>>

\* setTimeout(() => handleImageSizeAdjustment(getSceneElements(),
\* getFiles()), 100), by the handler of the render whose recentlyAddedImage
\* is recent.
ArmSizeCheck(recent) == sizeChecks \cup {[recentlyAddedImage |-> recent]}

\* The content kinds of a paste.
PasteKinds == {"text", "image"}

\* handlePasteEvent(data, event), kind the type of the clipboard item.  The
\* canvas engine then processes the paste; what it adds to the scene arrives
\* as a scene change.
HandlePasteEvent(kind) ==
  /\ initCanvas' = FALSE
  /\ IF kind = "image"
     THEN /\ Cardinality(sizeChecks) < MaxSizeChecks
          /\ sizeChecks' = ArmSizeCheck(recentlyAddedImage)
     ELSE UNCHANGED sizeChecks
  /\ saved' = <<>>
  /\ UNCHANGED <<sceneElements, sceneFiles, appState, recentlyAddedImage,
                 saveTimers, insertions, imageLoads>>

\* handleDrop(event)
HandleDrop ==
  /\ Cardinality(sizeChecks) < MaxSizeChecks
  /\ sizeChecks' = ArmSizeCheck(recentlyAddedImage)
  /\ saved' = <<>>
  /\ UNCHANGED <<sceneElements, sceneFiles, appState, recentlyAddedImage,
                 saveTimers, insertions, imageLoads, initCanvas>>

\* The 100 ms timer of a paste or a drop fires.
SizeCheckFire(c) ==
  /\ c \in sizeChecks
  /\ sizeChecks' = sizeChecks \ {c}
  /\ HandleImageSizeAdjustment(sceneElements, sceneFiles, c.recentlyAddedImage)
  /\ saved' = <<>>
  /\ UNCHANGED <<sceneElements, sceneFiles, appState, saveTimers, insertions,
                 initCanvas>>

\* Time passes while no timer is due: the timers of a paste or a drop are
\* due before a tick has passed.
CanvasTick ==
  /\ saveTimers # {}
  /\ sizeChecks = {}
  /\ \A t \in saveTimers : t.remaining >= DebounceTickMs
  /\ saveTimers' = {[t EXCEPT !.remaining = @ - DebounceTickMs] : t \in saveTimers}
  /\ saved' = <<>>
  /\ UNCHANGED <<sceneElements, sceneFiles, appState, recentlyAddedImage,
                 insertions, imageLoads, initCanvas, sizeChecks>>

\* The canvas host mounted on an empty canvas.
CanvasInit ==
  /\ sceneElements = <<>>
  /\ sceneFiles = {}
  /\ appState = [zoom |-> 1, collaborators |-> "Map",
                 selectedElementIds |-> {}]
  /\ recentlyAddedImage = "null"
  /\ saveTimers = {}
  /\ insertions = {}
  /\ imageLoads = {}
  /\ saved = <<>>
  /\ sizeChecks = {}

\* The configuration context on a freshly created canvas: it is pristine.
ConfigsInit == initCanvas = TRUE

CanvasNext ==
  \/ \E c \in CanvasIds, p \in ImagePayloads : CanvasHandleImageGenerated(c, p)
  \/ \E c \in CanvasIds, p \in ImagePayloads : HandleLayerAdded(c, p)
  \/ \E ins \in insertions : InsertResume(ins)
  \/ UserDraw
  \/ ViewChange
  \/ UserClear
  \/ \E t \in saveTimers : SaveTimerFire(t)
  \/ \E l \in imageLoads : ImageLoaded(l)
  \/ \E kind \in PasteKinds : HandlePasteEvent(kind)
  \/ HandleDrop
  \/ \E c \in sizeChecks : SizeCheckFire(c)
  \/ CanvasTick

\* The insertions of the canvas host under changes of its canvasId.
ScopeNext ==
  \/ /\ \E c \in CanvasIds, p \in ImagePayloads :
          CanvasHandleImageGenerated(c, p)
     /\ UNCHANGED hostVars
  \/ /\ \E c \in CanvasIds, p \in ImagePayloads : HandleLayerAdded(c, p)
     /\ UNCHANGED hostVars
  \/ /\ \E ins \in insertions : InsertResume(ins)
     /\ UNCHANGED hostVars
  \/ /\ \E t \in saveTimers : SaveTimerFire(t)
     /\ UNCHANGED hostVars
  \/ /\ UserClear
     /\ UNCHANGED hostVars
  \/ /\ UserDraw
     /\ UNCHANGED hostVars
  \/ /\ \E id \in CanvasIds : SetCanvasId(id)
     /\ saved' = <<>>
     /\ UNCHANGED <<sceneElements, sceneFiles, appState, recentlyAddedImage,
                    saveTimers, insertions, imageLoads, initCanvas,
                    sizeChecks>>

----------------------------------------------------------------------------
(* CanvasPopbar (pop-bar/CanvasPopbar.tsx) *)

Toast(kind, title) == [kind |-> kind, title |-> title]

\* The pop-toolbar is mounted, and its listeners are registered, while
\* images are selected.
PopbarMounted == selectedImages # {}

\* The user selects an image on the canvas.
SelectImages ==
  /\ selectedImages = {}
  /\ selectedImages' = {"e1"}
  /\ toasts' = <<>>
  /\ UNCHANGED <<splitCalls, submitted>>

\* handleSplitLayers up to its await of splitLayers(canvasId, ...).
HandleSplitLayers ==
  /\ PopbarMounted
  /\ splitCalls < MaxSplitCalls
  /\ toasts' = <<Toast("info", "submitted")>>
  /\ selectedImages' = {}
  /\ splitCalls' = splitCalls + 1
  /\ submitted' = TRUE

\* The outcomes of the splitLayers call.
SplitLayersOutcomes == {"success", "failure", "rejected"}

\* handleSplitLayers after its await.
SplitLayersSettled(outcome) ==
  /\ splitCalls > 0
  /\ splitCalls' = splitCalls - 1
  /\ toasts' = <<Toast(IF outcome = "success" THEN "success" ELSE "error",
                       "request")>>
  /\ UNCHANGED <<selectedImages, submitted>>

\* progress.percentage > 0 && progress.percentage < 100
InProgress(data) == data.percentage > 0 /\ data.percentage < 100

\* The listeners of the pop-toolbar's effect: the toasts shown for one
\* Event Bus emission.
PopbarListener(emission) ==
  IF emission.topic \notin {"Canvas::SplitLayersStarted",
                            "Canvas::SplitLayersSuccess",
                            "Canvas::SplitLayersError",
                            "Canvas::TaskProgress"}
  THEN <<>>
  ELSE IF emission.payload.canvas_id # CanvasId THEN <<>>
  ELSE CASE emission.topic = "Canvas::SplitLayersStarted" ->
              <<Toast("info", "started")>>
         [] emission.topic = "Canvas::SplitLayersSuccess" ->
              <<Toast("success", "success")>>
         [] emission.topic = "Canvas::SplitLayersError" ->
              <<Toast("error", "error")>>
         [] emission.topic = "Canvas::TaskProgress" ->
              IF InProgress(emission.payload)
              THEN <<Toast("info", "progress")>> ELSE <<>>

\* The toasts shown for the emissions es by the listeners registered.
RECURSIVE ToastsFor(_)
ToastsFor(es) ==
  IF es = <<>> THEN <<>>
  ELSE PopbarListener(es[1]) \o ToastsFor(Tail(es))

\* A task_notification frame arrives: the transport client emits on the
\* Event Bus and the listeners registered at that time run.
PopbarOnTaskNotification(data) ==
  /\ OnTaskNotification(data)
  /\ toasts' = IF PopbarMounted THEN ToastsFor(emitted') ELSE <<>>
  /\ UNCHANGED <<selectedImages, splitCalls, submitted>>

PopbarInit ==
  /\ selectedImages = {}
  /\ splitCalls = 0
  /\ submitted = FALSE
  /\ toasts = <<>>

PopbarNext ==
  \/ SelectImages /\ UNCHANGED socketVars
  \/ HandleSplitLayers /\ UNCHANGED socketVars
  \/ (\E o \in SplitLayersOutcomes : SplitLayersSettled(o))
       /\ UNCHANGED socketVars
  \/ \E data \in TaskNotificationFrames : PopbarOnTaskNotification(data)
  \/ OnConnect /\ UNCHANGED popbarVars

----------------------------------------------------------------------------
(* CanvasExport: export of the selected images as PNG *)

\* selectedIds.includes(id)
Includes(seq, x) == \E i \in 1..Len(seq) : seq[i] = x

\* The selected images taken in the order of the selection.
SelectedImageElementsBySelection(els, selectedIds) ==
  LET ids == SelectSeq(selectedIds,
                       LAMBDA id : \E i \in 1..Len(els) :
                                     els[i].id = id /\ els[i].type = "image")
  IN [k \in 1..Len(ids) |->
        els[CHOOSE i \in 1..Len(els) : els[i].id = ids[k]]]

\* elements.filter((element) =>
\*   selectedIds.includes(element.id) && element.type === 'image')
SelectedImageElements(els, selectedIds) ==
  SelectSeq(els, LAMBDA element :
                   Includes(selectedIds, element.id) /\ element.type = "image")

\* The url of the map over the images: the dataURL of the file (named here by
\* the file id), "undefined" for a file that is missing, "null" for an image
\* without a fileId.
ImageUrl(image, files) ==
  IF image.fileId # ""
  THEN IF image.fileId \in files THEN image.fileId ELSE "undefined"
  ELSE "null"

\* images.map(...).filter((url) => url !== null)
ImageUrls(imgs, files) ==
  SelectSeq([i \in 1..Len(imgs) |-> ImageUrl(imgs[i], files)],
            LAMBDA imageUrl : imageUrl # "null")

\* `image-${index}.png`
EntryName(index) ==
  CASE index = 0 -> "image-0.png"
    [] index = 1 -> "image-1.png"
    [] index = 2 -> "image-2.png"
    [] OTHER -> "image-3.png"

\* A file handed to saveAs: its name and, in order of the index, the entries
\* it is made of (the one image of a PNG file).
Download(name, entries) == [name |-> name, entries |-> entries]

\* zip.file(`image-${index}.png`, ...) for every url
ZipEntries(imageUrls) ==
  [i \in 1..Len(imageUrls) |->
     [name |-> EntryName(i - 1), data |-> imageUrls[i]]]

\* The user adds an element of the scene to the selection.
SelectElement(id) ==
  /\ \E i \in 1..Len(sceneElements) : sceneElements[i].id = id
  /\ ~Includes(selectionOrder, id)
  /\ selectionOrder' = Append(selectionOrder, id)
  /\ downloads' = <<>>
  /\ exportToasts' = <<>>

\* The user clicks the empty canvas.
DeselectAll ==
  /\ selectionOrder # <<>>
  /\ selectionOrder' = <<>>
  /\ downloads' = <<>>
  /\ exportToasts' = <<>>

\* handleExportImages; failed holds the places of the urls whose download
\* (downloadImage) is rejected.  The scene is read before the first await.
HandleExportImages(failed) ==
  LET imgs == SelectedImageElements(sceneElements, selectionOrder)
      imageUrls == ImageUrls(imgs, sceneFiles)
      loading == Toast("loading", "exportingImages")
      dismiss == Toast("dismiss", "exportingImages")
  IN /\ failed \subseteq 1..Len(imageUrls)
     /\ Len(imageUrls) = 0 => failed = {}
     /\ UNCHANGED selectionOrder
     /\ IF Len(imgs) = 0 \/ Len(imageUrls) = 0
        THEN /\ downloads' = <<>>
             /\ exportToasts' =
                  <<loading, Toast("error", "noImagesSelected"), dismiss>>
        ELSE IF failed # {}
        THEN /\ downloads' = <<>>
             /\ exportToasts' =
                  <<loading, Toast("error", "failedToExportImages"), dismiss>>
        ELSE IF Len(imageUrls) = 1
        THEN /\ downloads' = <<Download("image.png", <<imageUrls[1]>>)>>
             /\ exportToasts' = <<loading, dismiss>>
        ELSE /\ downloads' =
                  <<Download("images.zip", ZipEntries(imageUrls))>>
             /\ exportToasts' = <<loading, dismiss>>

ExportInit ==
  /\ selectionOrder = <<>>
  /\ downloads = <<>>
  /\ exportToasts = <<>>

\* The export menu over a scene that images are inserted into.
ExportNext ==
  \/ /\ \E p \in ImagePayloads : CanvasHandleImageGenerated(CanvasId, p)
     /\ downloads' = <<>>
     /\ exportToasts' = <<>>
     /\ UNCHANGED selectionOrder
  \/ /\ \E ins \in insertions : InsertResume(ins)
     /\ downloads' = <<>>
     /\ exportToasts' = <<>>
     /\ UNCHANGED selectionOrder
  \/ /\ UserDraw
     /\ downloads' = <<>>
     /\ exportToasts' = <<>>
     /\ UNCHANGED selectionOrder
  \/ /\ \E id \in {"e1", "e2", "u1"} : SelectElement(id)
     /\ UNCHANGED canvasVars
  \/ /\ DeselectAll
     /\ UNCHANGED canvasVars
  \/ /\ \E failed \in SUBSET (1..MaxElements) : HandleExportImages(failed)
     /\ UNCHANGED canvasVars

----------------------------------------------------------------------------
(* ProjectFormDialog: the project-brief form *)

\* The texts typed into a field: strings of at most MaxFormText characters,
\* each a blank or a letter.
FormTexts ==
  UNION {[1..n -> {" ", "a"}] : n \in 0..MaxFormText}

\* String.prototype.trim: the blanks at both ends are removed.
RECURSIVE TrimStart(_)
TrimStart(text) ==
  IF text # <<>> /\ Head(text) = " " THEN TrimStart(Tail(text)) ELSE text

RECURSIVE TrimEnd(_)
TrimEnd(text) ==
  IF text # <<>> /\ text[Len(text)] = " "
  THEN TrimEnd(SubSeq(text, 1, Len(text) - 1))
  ELSE text

Trim(text) == TrimEnd(TrimStart(text))

\* The fields of the form, and the values the model enters into them.
FormValues(field) ==
  CASE field \in {"companyName", "productName"} -> FormTexts
    [] field = "imageCount" -> 1..MaxImageCount
    [] OTHER -> {<<>>, <<"a">>}

FormFields ==
  {"companyName", "productName", "dimensions", "style", "backgroundColor",
   "description", "imageCount"}

\* The default values of the form.
DefaultFormData ==
  [companyName |-> <<>>, productName |-> <<>>, dimensions |-> <<>>,
   style |-> <<>>, backgroundColor |-> <<>>, description |-> <<>>,
   imageCount |-> 1]

\* The validation with the test of the product name left out.
FormInvalidCompanyOnly(data) == Trim(data.companyName) = <<>>

\* !formData.companyName.trim() || !formData.productName.trim()
FormInvalid(data) ==
  \/ Trim(data.companyName) = <<>>
  \/ Trim(data.productName) = <<>>

\* The parent opens the dialog.
OpenForm ==
  /\ ~formOpen
  /\ formOpen' = TRUE
  /\ onSubmitCalls' = <<>>
  /\ formToasts' = <<>>
  /\ UNCHANGED formData

\* onChange of an input, onValueChange of the slider
SetFormField(field, value) ==
  /\ formOpen
  /\ formData[field] # value
  /\ formData' = [formData EXCEPT ![field] = value]
  /\ onSubmitCalls' = <<>>
  /\ formToasts' = <<>>
  /\ UNCHANGED formOpen

\* handleSubmit
HandleFormSubmit ==
  /\ formOpen
  /\ IF FormInvalid(formData)
     THEN /\ formToasts' = <<Toast("error", "validationError")>>
          /\ onSubmitCalls' = <<>>
          /\ UNCHANGED <<formData, formOpen>>
     ELSE /\ onSubmitCalls' = <<formData>>
          /\ formData' = DefaultFormData
          /\ formOpen' = FALSE
          /\ formToasts' = <<>>

\* handleCancel
HandleFormCancel ==
  /\ formOpen
  /\ formData' = DefaultFormData
  /\ formOpen' = FALSE
  /\ onSubmitCalls' = <<>>
  /\ formToasts' = <<>>

FormInit ==
  /\ formData = DefaultFormData
  /\ formOpen = FALSE
  /\ onSubmitCalls = <<>>
  /\ formToasts = <<>>

FormNext ==
  \/ OpenForm
  \/ \E field \in FormFields :
       \E value \in FormValues(field) : SetFormField(field, value)
  \/ HandleFormSubmit
  \/ HandleFormCancel

----------------------------------------------------------------------------
(* HomeHeader: deletion of a canvas *)

\* handleDeleteClick(e, canvas); the dialog is modal, so the delete controls
\* of the list are reached while it is closed.
HandleDeleteClick(id) ==
  /\ ~deleteDialogOpen
  /\ canvasToDelete' = id
  /\ deleteOpenedFor' = id
  /\ deleteDialogOpen' = TRUE
  /\ deleteIssued' = <<>>
  /\ deleteOutcome' = "none"
  /\ deleteToasts' = <<>>
  /\ invalidated' = FALSE
  /\ UNCHANGED deleteCalls

\* The cancel button of the dialog, or the dialog dismissed:
\* setDeleteDialogOpen(false)
CancelDelete ==
  /\ deleteDialogOpen
  /\ deleteDialogOpen' = FALSE
  /\ deleteIssued' = <<>>
  /\ deleteOutcome' = "none"
  /\ deleteToasts' = <<>>
  /\ invalidated' = FALSE
  /\ UNCHANGED <<canvasToDelete, deleteOpenedFor, deleteCalls>>

\* confirmDelete up to its await of deleteCanvas(canvasToDelete.id)
ConfirmDelete ==
  /\ deleteDialogOpen
  /\ deleteOutcome' = "none"
  /\ deleteToasts' = <<>>
  /\ invalidated' = FALSE
  /\ UNCHANGED <<deleteDialogOpen, canvasToDelete, deleteOpenedFor>>
  /\ IF canvasToDelete = "null"
     THEN /\ deleteIssued' = <<>>
          /\ UNCHANGED deleteCalls
     ELSE /\ deleteCalls[canvasToDelete] < MaxDeleteCalls
          /\ deleteIssued' = <<canvasToDelete>>
          /\ deleteCalls' = [deleteCalls EXCEPT ![canvasToDelete] = @ + 1]

\* The ways a deleteCanvas call ends: fetch does not reject on an HTTP error
\* status, and response.json() resolves with whatever JSON the body holds.
\* "deleted": a success body; "error_body": a non-success status with a JSON
\* body; "rejected": the request fails or the body is not JSON.
DeleteOutcomes == {"deleted", "error_body", "rejected"}

\* Does await deleteCanvas(id) throw?  The function returns response.json()
\* without a look at response.ok or at the body.
DeleteCanvasThrows(outcome) == outcome = "rejected"

\* confirmDelete from its await on: try, catch and finally.
DeleteSettled(id, outcome) ==
  /\ deleteCalls[id] > 0
  /\ deleteCalls' = [deleteCalls EXCEPT ![id] = @ - 1]
  /\ deleteIssued' = <<>>
  /\ deleteOutcome' = outcome
  /\ IF DeleteCanvasThrows(outcome)
     THEN /\ deleteToasts' = <<Toast("error", "failedToDelete")>>
          /\ invalidated' = FALSE
     ELSE /\ deleteToasts' = <<Toast("success", "canvasDeleted")>>
          /\ invalidated' = TRUE
  /\ deleteDialogOpen' = FALSE
  /\ canvasToDelete' = "null"
  /\ UNCHANGED deleteOpenedFor

DeleteInit ==
  /\ deleteDialogOpen = FALSE
  /\ canvasToDelete = "null"
  /\ deleteOpenedFor = "null"
  /\ deleteCalls = [id \in CanvasIds |-> 0]
  /\ deleteIssued = <<>>
  /\ deleteOutcome = "none"
  /\ deleteToasts = <<>>
  /\ invalidated = FALSE

DeleteNext ==
  \/ \E id \in CanvasIds : HandleDeleteClick(id)
  \/ CancelDelete
  \/ ConfirmDelete
  \/ \E id \in CanvasIds, outcome \in DeleteOutcomes :
       DeleteSettled(id, outcome)

----------------------------------------------------------------------------
(* Event Bus subscriptions (the effects of Chat.tsx, CanvasExcali.tsx,      *)
(* ChatTextarea.tsx and the pop-toolbar)                                    *)

Components == {"chat", "host", "textarea", "popbar"}

\* The topics the subscription effect of a component registers handlers for.
TopicsOf(c) ==
  CASE c = "chat" ->
         {"Socket::Session::Delta", "Socket::Session::ToolCall",
          "Socket::Session::ToolCallArguments",
          "Socket::Session::ImageGenerated", "Socket::Session::AllMessages",
          "Socket::Session::Done", "Socket::Session::Error",
          "Socket::Session::Info"}
    [] c = "host" ->
         {"Socket::Session::ImageGenerated", "Socket::Session::LayerAdded",
          "Canvas::AdjustView"}
    [] c = "textarea" ->
         {"Canvas::AddImagesToChat", "Canvas::ImagesToPreview"}
    [] OTHER ->
         {"Canvas::SplitLayersStarted", "Canvas::SplitLayersSuccess",
          "Canvas::SplitLayersError", "Canvas::TaskProgress"}

BusTopics == UNION {TopicsOf(c) : c \in Components}

\* The handler functions of a component made in one render of one instance;
\* NoHandlers before the first effect has run.
Handlers(c, mount, render) ==
  [component |-> c, mount |-> mount, render |-> render]
NoHandlers == Handlers("none", 0, 0)

\* eventBus.on(topic, handler) for every topic of the component
On(bus, c, h) ==
  [topic \in BusTopics |->
     IF topic \in TopicsOf(c) THEN Append(bus[topic], h) ELSE bus[topic]]

\* handlers.splice(handlers.indexOf(handler) >>> 0, 1): the first occurrence
\* of the handler is removed, and nothing if there is none.
RemoveFirst(seq, h) ==
  IF \E i \in 1..Len(seq) : seq[i] = h
  THEN LET k == CHOOSE i \in 1..Len(seq) :
                  seq[i] = h /\ \A j \in 1..(i - 1) : seq[j] # h
       IN SubSeq(seq, 1, k - 1) \o SubSeq(seq, k + 1, Len(seq))
  ELSE seq

\* The cleanup of the effect with its eventBus.off calls left out.
OffNever(bus, c, h) == bus

\* eventBus.off(topic, handler) for every topic of the component
Off(bus, c, h) ==
  [topic \in BusTopics |->
     IF topic \in TopicsOf(c) THEN RemoveFirst(bus[topic], h)
     ELSE bus[topic]]

\* The handlers the cleanup of the effect passes to off: those of the
\* closure of the effect run that registered them.
CleanupHandlers(c) == registeredHandlers[c]

\* Does the subscription effect run again after a render?  The chat's effect
\* has no dependency list; the host's lists its handlers, the canvas id and
\* the engine handle; the textarea's and the pop-toolbar's handlers are made
\* inside the effect, which lists uploadImageMutation and canvasId.
EffectRuns(c, fresh, depsChanged) ==
  CASE c = "chat" -> TRUE
    [] c = "host" -> fresh \/ depsChanged
    [] OTHER -> depsChanged

\* Are the handler functions of the render new ones?  The chat's and the
\* host's are memoised (useCallback) and new when their dependencies
\* changed; those made inside an effect are new whenever it runs.
HandlersAreNew(c, fresh, depsChanged) ==
  IF c \in {"chat", "host"} THEN fresh ELSE depsChanged

\* The component is mounted: first render, then its effect.
Mount(c) ==
  /\ ~isMounted[c]
  /\ mounts[c] < MaxMounts
  /\ isMounted' = [isMounted EXCEPT ![c] = TRUE]
  /\ mounts' = [mounts EXCEPT ![c] = @ + 1]
  /\ renders' = [renders EXCEPT ![c] = 1]
  /\ currentHandlers' =
       [currentHandlers EXCEPT ![c] = Handlers(c, mounts[c] + 1, 1)]
  /\ registeredHandlers' =
       [registeredHandlers EXCEPT ![c] = Handlers(c, mounts[c] + 1, 1)]
  /\ busHandlers' = On(busHandlers, c, Handlers(c, mounts[c] + 1, 1))

\* The component renders again; when its effect runs again, the cleanup of
\* the run before comes first.
Rerender(c, fresh, depsChanged) ==
  /\ isMounted[c]
  /\ renders[c] < MaxRenders
  /\ renders' = [renders EXCEPT ![c] = @ + 1]
  /\ UNCHANGED <<isMounted, mounts>>
  /\ LET h == IF HandlersAreNew(c, fresh, depsChanged)
              THEN Handlers(c, mounts[c], renders[c] + 1)
              ELSE currentHandlers[c]
     IN /\ currentHandlers' = [currentHandlers EXCEPT ![c] = h]
        /\ IF EffectRuns(c, fresh, depsChanged)
           THEN /\ busHandlers' =
                     On(Off(busHandlers, c, CleanupHandlers(c)), c, h)
                /\ registeredHandlers' =
                     [registeredHandlers EXCEPT ![c] = h]
           ELSE UNCHANGED <<busHandlers, registeredHandlers>>

\* The component is unmounted: the cleanup of its effect runs.
Unmount(c) ==
  /\ isMounted[c]
  /\ isMounted' = [isMounted EXCEPT ![c] = FALSE]
  /\ busHandlers' = Off(busHandlers, c, CleanupHandlers(c))
  /\ registeredHandlers' = [registeredHandlers EXCEPT ![c] = NoHandlers]
  /\ UNCHANGED <<mounts, renders, currentHandlers>>

BusInit ==
  /\ busHandlers = [topic \in BusTopics |-> <<>>]
  /\ isMounted = [c \in Components |-> FALSE]
  /\ mounts = [c \in Components |-> 0]
  /\ renders = [c \in Components |-> 0]
  /\ currentHandlers = [c \in Components |-> NoHandlers]
  /\ registeredHandlers = [c \in Components |-> NoHandlers]

BusNext ==
  \/ \E c \in Components : Mount(c)
  \/ \E c \in Components, fresh \in BOOLEAN, depsChanged \in BOOLEAN :
       Rerender(c, fresh, depsChanged)
  \/ \E c \in Components : Unmount(c)

----------------------------------------------------------------------------
(* ImageResolutionDisplay (ImageResolutionDisplay.tsx) *)

\* The value of a number input: the empty string, or the text of a number.
EmptyInput == [kind |-> "empty", number |-> 0]
NumberInput(n) == [kind |-> "number", number |-> n]

\* width.toString()
NumberToString(n) == NumberInput(n)

\* Number(value), for a value that is not empty
ToNumber(value) == value.number

\* What the user can type into an input.
TypedInputs == {EmptyInput} \cup {NumberInput(n) : n \in -1..MaxDim}

\* value !== '' && !isNaN(Number(value)) && Number(value) > 0
IsPositiveNumber(value) == value.kind = "number" /\ ToNumber(value) > 0

\* A ratio width / height.
Ratio(width, height) == [width |-> width, height |-> height]

\* Math.floor(num / den) instead of Math.round.
RoundDown(num, den) == num \div den

\* Math.round(num / den) for num >= 0 and den > 0: halves round up.
Round(num, den) == (2 * num + den) \div (2 * den)

NoResolution == [width |-> 0, height |-> 0, elementId |-> "null"]

\* elements.filter(element => element.type === 'image' &&
\* selectedIds[element.id]): the places of the selected images.
SelectedImages(els, ids) ==
  {i \in 1..Len(els) : els[i].type = "image" /\ els[i].id \in ids}

\* selectedImages[0]
FirstSelectedImage(els, ids) ==
  els[CHOOSE i \in SelectedImages(els, ids) :
        \A j \in SelectedImages(els, ids) : i <= j]

\* The guard of the overwrite with the test of isEditingRef dropped.
MayOverwriteAlways == TRUE

\* !isEditingRef.current: the effect that mirrors isEditing into the ref
\* runs with the render that follows setIsEditing.
MayOverwrite == ~isEditing

\* handleExcalidrawChange(elements, appState, files)
HandleExcalidrawChange(els, as) ==
  IF SelectedImages(els, as.selectedElementIds) = {}
  THEN /\ resolutionInfo' = NoResolution
       /\ UNCHANGED <<newWidth, newHeight, originalRatio>>
  ELSE LET selectedImage == FirstSelectedImage(els, as.selectedElementIds)
       IN /\ resolutionInfo' = [width |-> selectedImage.width,
                               height |-> selectedImage.height,
                               elementId |-> selectedImage.id]
          /\ IF MayOverwrite
             THEN /\ newWidth' = NumberToString(selectedImage.width)
                  /\ newHeight' = NumberToString(selectedImage.height)
                  /\ originalRatio' = Ratio(selectedImage.width,
                                            selectedImage.height)
             ELSE UNCHANGED <<newWidth, newHeight, originalRatio>>

\* The scenes the engine shows to the display, before any resize.
ResolutionScenes ==
  { <<>>,
    <<Element("e1", "image", "f1", 105, 100, 1)>>,
    <<Element("e1", "image", "f1", 105, 100, 1),
      Element("e2", "image", "f2", 50, 100, 2)>>,
    <<UserElement, Element("e2", "image", "f2", 50, 100, 2)>> }

\* An engine-driven change: the scene or the selection changes other than
\* by the display, and the engine notifies its onChange listeners.
EngineChange(els, ids) ==
  /\ ids \subseteq {els[i].id : i \in 1..Len(els)}
  /\ SceneChange(els, [appState EXCEPT !.selectedElementIds = ids],
                 sceneFiles, recentlyAddedImage)
  /\ HandleExcalidrawChange(els, [appState EXCEPT !.selectedElementIds = ids])
  /\ UNCHANGED <<isEditing, keepRatio, openedFor, resizes>>
  /\ UNCHANGED <<recentlyAddedImage, insertions, imageLoads, saved,
                 initCanvas, sizeChecks>>

\* The display renders its control only while an image is selected.
DisplayShown == resolutionInfo # NoResolution

\* The popover content is shown.
PopoverShown == DisplayShown /\ isEditing

\* handleEditingChange(open)
HandleEditingChange(open) ==
  /\ DisplayShown
  /\ isEditing # open
  /\ newWidth' = IF open THEN NumberToString(resolutionInfo.width) ELSE newWidth
  /\ newHeight' = IF open THEN NumberToString(resolutionInfo.height) ELSE newHeight
  /\ originalRatio' = IF open
                      THEN Ratio(resolutionInfo.width, resolutionInfo.height)
                      ELSE originalRatio
  /\ openedFor' = IF open THEN resolutionInfo.elementId ELSE openedFor
  /\ isEditing' = open
  /\ UNCHANGED <<resolutionInfo, keepRatio, resizes, canvasVars>>

\* handleWidthChange(value)
HandleWidthChange(value) ==
  /\ PopoverShown
  /\ newWidth' = value
  /\ newHeight' = IF keepRatio /\ IsPositiveNumber(value)
                  THEN NumberToString(Round(ToNumber(value) * originalRatio.height,
                                      originalRatio.width))
                  ELSE newHeight
  /\ UNCHANGED <<resolutionInfo, isEditing, keepRatio, originalRatio,
                 openedFor, resizes, canvasVars>>

\* handleHeightChange(value)
HandleHeightChange(value) ==
  /\ PopoverShown
  /\ newHeight' = value
  /\ newWidth' = IF keepRatio /\ IsPositiveNumber(value)
                 THEN NumberToString(Round(ToNumber(value) * originalRatio.width,
                                     originalRatio.height))
                 ELSE newWidth
  /\ UNCHANGED <<resolutionInfo, isEditing, keepRatio, originalRatio,
                 openedFor, resizes, canvasVars>>

\* setKeepRatio(e.target.checked)
SetKeepRatio(checked) ==
  /\ PopoverShown
  /\ keepRatio' = checked
  /\ UNCHANGED <<resolutionInfo, isEditing, newWidth, newHeight,
                 originalRatio, openedFor, resizes, canvasVars>>

\* The cancel button: setIsEditing(false)
CancelResize ==
  /\ PopoverShown
  /\ isEditing' = FALSE
  /\ UNCHANGED <<resolutionInfo, newWidth, newHeight, keepRatio,
                 originalRatio, openedFor, resizes, canvasVars>>

\* !newWidth || !newHeight || isNaN(width) || isNaN(height) ||
\* width <= 0 || height <= 0
ResizeRejected ==
  ~(IsPositiveNumber(newWidth) /\ IsPositiveNumber(newHeight))

\* elements.map(el => el.id === resolutionInfo.elementId
\*                      ? { ...el, width, height } : el)
Resized(els, id, width, height) ==
  [i \in 1..Len(els) |->
     IF els[i].id = id
     THEN [els[i] EXCEPT !.width = width, !.height = height]
     ELSE els[i]]

\* applyResize: the scene is updated, the engine notifies its onChange
\* listeners, and the popover is closed.
ApplyResize ==
  /\ PopoverShown
  /\ IF ResizeRejected
     THEN UNCHANGED <<resolutionVars, canvasVars>>
     ELSE /\ resizes < MaxResizes
          /\ resizes' = resizes + 1
          /\ SceneChange(Resized(sceneElements, resolutionInfo.elementId,
                                 ToNumber(newWidth), ToNumber(newHeight)),
                         appState, sceneFiles, recentlyAddedImage)
          /\ HandleExcalidrawChange(
               Resized(sceneElements, resolutionInfo.elementId,
                       ToNumber(newWidth), ToNumber(newHeight)), appState)
          /\ isEditing' = FALSE
          /\ UNCHANGED <<keepRatio, openedFor>>
          /\ UNCHANGED <<recentlyAddedImage, insertions, imageLoads, saved,
                         initCanvas, sizeChecks>>

ResolutionInit ==
  /\ resolutionInfo = NoResolution
  /\ isEditing = FALSE
  /\ newWidth = EmptyInput
  /\ newHeight = EmptyInput
  /\ keepRatio = TRUE
  /\ originalRatio = Ratio(1, 1)
  /\ openedFor = "null"
  /\ resizes = 0

ResolutionNext ==
  \/ \E els \in ResolutionScenes, ids \in SUBSET {"e1", "e2", "u1"} :
       EngineChange(els, ids)
  \/ \E open \in BOOLEAN : HandleEditingChange(open)
  \/ \E value \in TypedInputs : HandleWidthChange(value)
  \/ \E value \in TypedInputs : HandleHeightChange(value)
  \/ \E checked \in BOOLEAN : SetKeepRatio(checked)
  \/ CancelResize
  \/ ApplyResize

----------------------------------------------------------------------------
(* The resize popover together with the dimension correction of the host *)

\* The display is an onChange listener of the engine: a scene change made by
\* the host reaches handleExcalidrawChange as well.
DisplayNotified ==
  /\ HandleExcalidrawChange(sceneElements', appState')
  /\ UNCHANGED <<isEditing, keepRatio, openedFor, resizes>>

\* The user selects the elements ids of the scene.
SelectElements(ids) ==
  /\ ids # appState.selectedElementIds
  /\ EngineChange(sceneElements, ids)

\* applyResize, the element it resizes recorded.
UserApplyResize ==
  /\ ApplyResize
  /\ userSized' = IF ResizeRejected
                  THEN userSized
                  ELSE userSized \cup {[id |-> resolutionInfo.elementId,
                                        before |-> imageLoads]}

ResizeInit == userSized = {}

LocalPayloads == {p \in ImagePayloads : ~p.file.remote}

ResizeNext ==
  \/ /\ \/ \E p \in LocalPayloads : CanvasHandleImageGenerated(CanvasId, p)
        \/ \E l \in imageLoads : ImageLoaded(l)
     /\ DisplayNotified
     /\ UNCHANGED resizeVars
  \/ /\ \/ \E t \in saveTimers : SaveTimerFire(t)
        \/ CanvasTick
     /\ UNCHANGED <<resolutionVars, resizeVars>>
  \/ /\ \/ \E ids \in SUBSET {"e1", "e2"} : SelectElements(ids)
        \/ HandleEditingChange(TRUE)
        \/ HandleWidthChange(NumberInput(MaxDim))
     /\ UNCHANGED resizeVars
  \/ UserApplyResize

----------------------------------------------------------------------------
(* Canvas route (canvas.$id.tsx) *)

\* What the backend stores for canvas id: getCanvas(id) resolves to it.
StoredScene(id) == <<Element(id, "rectangle", "", 100, 100, 1)>>
GetCanvas(id) ==
  [data |-> StoredScene(id),
   name |-> IF id = "c1" THEN "Canvas 1" ELSE "Canvas 2",
   sessions |-> IF id = "c1" THEN <<"s1">> ELSE <<"s2">>]

\* getCanvas(id) resolves, or rejects (the request fails or the body is not
\* JSON).
FetchOutcomes == {"resolved", "rejected"}

NoFetch == [id |-> "", run |-> 0, outcome |-> ""]

\* The pane shows the canvas host: isLoading ? <Loader2 /> : <CanvasExcali />
HostShown == routeMounted /\ ~isLoading

\* The canvas state before any fetch has resolved: null, shown to the host
\* as no initial data.
NullCanvas == [data |-> <<>>, name |-> "", sessions |-> <<>>]

\* canvas?.data
InitialData(c) == IF c = NullCanvas THEN <<>> ELSE c.data

\* <CanvasExcali canvasId={id} initialData={canvas?.data} /> is mounted: the
\* engine starts from initialData; the timers of an earlier host stay armed.
MountHost(c) ==
  /\ sceneElements' = InitialData(c)
  /\ sceneFiles' = {}
  /\ appState' = [zoom |-> 1, collaborators |-> "Map",
                  selectedElementIds |-> {}]
  /\ recentlyAddedImage' = "null"
  /\ canvasId' = routeId'
  /\ generatedCanvasId' = routeId'
  /\ loadedFrom' = IF c = NullCanvas
                   THEN "none"
                   ELSE CHOOSE id \in CanvasIds : GetCanvas(id) = c
  /\ UNCHANGED <<saveTimers, insertions, imageLoads, initCanvas, sizeChecks>>

\* The host is unmounted: its engine and its scene are gone, its timers are
\* not cleared.
UnmountHost ==
  /\ sceneElements' = <<>>
  /\ sceneFiles' = {}
  /\ appState' = [zoom |-> 1, collaborators |-> "Map",
                  selectedElementIds |-> {}]
  /\ recentlyAddedImage' = "null"
  /\ loadedFrom' = "none"
  /\ UNCHANGED <<saveTimers, insertions, imageLoads, initCanvas, sizeChecks,
                 hostVars>>

\* return () => { mounted = false }
Cleanup(fs) == {[f EXCEPT !.mounted = FALSE] : f \in fs}

\* The effect of [id]: fetchCanvas() up to its await.
FetchCanvas(id) ==
  /\ effectRun' = effectRun + 1
  /\ isLoading' = TRUE
  /\ error' = "null"
  /\ canvasFetches' = Cleanup(canvasFetches) \cup
       {[id |-> id, run |-> effectRun + 1, mounted |-> TRUE]}

\* The route is rendered with another id: the cleanup of the effect runs,
\* the effect runs again and the spinner replaces the host.
Navigate(id) ==
  /\ routeMounted
  /\ id # routeId
  /\ effectRun < MaxEffectRuns
  /\ routeId' = id
  /\ FetchCanvas(id)
  /\ UnmountHost
  /\ saved' = <<>>
  /\ lastSettled' = NoFetch
  /\ UNCHANGED <<routeMounted, canvas, canvasName, canvasSessionList,
                 originated>>

\* The route is unmounted.
RouteUnmount ==
  /\ routeMounted
  /\ routeMounted' = FALSE
  /\ canvasFetches' = Cleanup(canvasFetches)
  /\ UnmountHost
  /\ saved' = <<>>
  /\ lastSettled' = NoFetch
  /\ UNCHANGED <<routeId, canvas, isLoading, error, canvasName,
                 canvasSessionList, effectRun, originated>>

\* if (mounted) with the test left out.
FetchMountedAlways(f) == TRUE

\* if (mounted)
FetchMounted(f) == f.mounted

\* fetchCanvas() from its await on: getCanvas(f.id) has settled.
FetchSettled(f, outcome) ==
  /\ f \in canvasFetches
  /\ canvasFetches' = canvasFetches \ {f}
  /\ lastSettled' = [id |-> f.id, run |-> f.run, outcome |-> outcome]
  /\ saved' = <<>>
  /\ UNCHANGED <<routeId, routeMounted, effectRun, originated>>
  /\ IF FetchMounted(f)
     THEN /\ IF outcome = "resolved"
             THEN /\ canvas' = GetCanvas(f.id)
                  /\ canvasName' = GetCanvas(f.id).name
                  /\ canvasSessionList' = GetCanvas(f.id).sessions
                  /\ UNCHANGED error
             ELSE /\ error' = "Error"
                  /\ UNCHANGED <<canvas, canvasName, canvasSessionList>>
          /\ isLoading' = FALSE
          /\ IF routeMounted /\ isLoading
             THEN MountHost(canvas')
             ELSE UNCHANGED <<sceneElements, sceneFiles, appState,
                              recentlyAddedImage, saveTimers, insertions,
                              imageLoads, initCanvas, sizeChecks, hostVars,
                              loadedFrom>>
     ELSE UNCHANGED <<canvas, canvasName, canvasSessionList, error,
                      isLoading, sceneElements, sceneFiles, appState,
                      recentlyAddedImage, saveTimers, insertions,
                      imageLoads, initCanvas, sizeChecks, hostVars,
                      loadedFrom>>

\* The user draws on the host shown.
RouteUserDraw ==
  /\ HostShown
  /\ UserDraw
  /\ originated' = IF canvasId = loadedFrom
                   THEN originated \cup
                          {[canvasId |-> canvasId, elements |-> sceneElements']}
                   ELSE originated
  /\ lastSettled' = NoFetch
  /\ UNCHANGED <<routeId, routeMounted, canvas, isLoading, error, canvasName,
                 canvasSessionList, canvasFetches, effectRun, loadedFrom,
                 hostVars>>

\* The state after the first render of the route and the first run of its
\* effect.
RouteInit ==
  /\ routeId = CanvasId
  /\ routeMounted = TRUE
  /\ canvas = NullCanvas
  /\ isLoading = TRUE
  /\ error = "null"
  /\ canvasName = ""
  /\ canvasSessionList = <<>>
  /\ canvasFetches = {[id |-> CanvasId, run |-> 1, mounted |-> TRUE]}
  /\ effectRun = 1
  /\ lastSettled = NoFetch
  /\ loadedFrom = "none"
  /\ originated = {}

RouteNext ==
  \/ \E id \in CanvasIds : Navigate(id)
  \/ RouteUnmount
  \/ \E f \in canvasFetches, outcome \in FetchOutcomes : FetchSettled(f, outcome)
  \/ RouteUserDraw
  \/ /\ \/ \E t \in saveTimers : SaveTimerFire(t)
        \/ CanvasTick
     /\ lastSettled' = NoFetch
     /\ UNCHANGED <<routeId, routeMounted, canvas, isLoading, error,
                    canvasName, canvasSessionList, canvasFetches, effectRun,
                    loadedFrom, originated, hostVars>>

----------------------------------------------------------------------------
(* Session selection of the chat interface (Chat.tsx) *)

Session(id, title, model, provider) ==
  [id |-> id, title |-> title, model |-> model, provider |-> provider]

NullSession == Session(NoSession, "", "", "")

\* The session lists of the canvases loaded.
SessionLists ==
  { <<Session("s1", "t", "claude", "anthropic")>>,
    <<Session("s1", "t", "claude", "anthropic"),
      Session("s2", "t", "gpt-4o", "openai")>> }

\* nanoid(): the id of the n-th session of the list, made by new chat.
NanoId(n) == CASE n = 1 -> "n1" [] n = 2 -> "n2" [] n = 3 -> "n3"
               [] OTHER -> "n4"

\* sessionList.find((s) => s.id === id) || null
FindSession(list, id) ==
  IF \E i \in 1..Len(list) : list[i].id = id
  THEN list[CHOOSE i \in 1..Len(list) :
              /\ list[i].id = id
              /\ \A j \in 1..(i - 1) : list[j].id # id]
  ELSE NullSession

\* setSession(value): the render that follows derives sessionId, and the
\* effect on sessionId starts initChat for a session id that is new.
SetSession(value) ==
  /\ session' = value
  /\ IF value.id = sessionId
     THEN UNCHANGED chatVars
     ELSE IF value = NullSession
          THEN /\ sessionId' = NoSession
               /\ toolCallMessages' = ToolCallIdsOf(messages)
               /\ issued' = <<>>
               /\ UNCHANGED <<messages, pending, expandingToolCalls, timers,
                              fetches>>
          ELSE SelectSession(value.id)

\* The derivation with the search parameter ignored.
DerivedSessionFirst ==
  IF Len(sessionList) > 0 THEN sessionList[1] ELSE NullSession

\* The session derived by the effect on [sessionList, searchSessionId].
DerivedSession ==
  IF Len(sessionList) > 0
  THEN IF searchSessionId # ""
       THEN FindSession(sessionList, searchSessionId)
       ELSE sessionList[1]
  ELSE NullSession

\* The effect has not run for the current sessionList and searchSessionId.
EffectPending == effectDeps # <<sessionList, searchSessionId>>

\* useEffect(..., [sessionList, searchSessionId])
SessionEffect ==
  /\ EffectPending
  /\ SetSession(DerivedSession)
  /\ effectDeps' = <<sessionList, searchSessionId>>
  /\ UNCHANGED <<sessionList, searchSessionId, url, lastClick>>

\* onSelectSession(id) of the render whose sessionList is list
OnSelectSession(list, id) ==
  /\ SetSession(FindSession(list, id))
  /\ url' = id

\* The user picks a session in the selector.
ClickSelectSession(id) ==
  /\ ~EffectPending
  /\ \E i \in 1..Len(sessionList) : sessionList[i].id = id
  /\ OnSelectSession(sessionList, id)
  /\ lastClick' = "select"
  /\ UNCHANGED <<sessionList, searchSessionId, effectDeps>>

\* The fallback of the model and provider of a new session.
FallbackModel == "gpt-4o"
FallbackProvider == "openai"

\* onClickNewChat
OnClickNewChat ==
  /\ ~EffectPending
  /\ Len(sessionList) < MaxSessions
  /\ sessionList' =
       Append(sessionList,
              Session(NanoId(Len(sessionList) + 1), "New Chat",
                      IF session # NullSession THEN session.model
                      ELSE FallbackModel,
                      IF session # NullSession THEN session.provider
                      ELSE FallbackProvider))
  /\ OnSelectSession(sessionList, NanoId(Len(sessionList) + 1))
  /\ lastClick' = "new"
  /\ UNCHANGED <<searchSessionId, effectDeps>>

\* The router follows the page URL: useSearch returns its sessionId.
RouterSync ==
  /\ searchSessionId # url
  /\ searchSessionId' = url
  /\ UNCHANGED <<sessionList, session, url, effectDeps, lastClick, chatVars>>

\* setSessionList(data.sessions) of the canvas page, once getCanvas resolved
\* with a canvas that has sessions.
CanvasFetched(list) ==
  /\ sessionList = <<>>
  /\ lastClick = "none"
  /\ sessionList' = list
  /\ UNCHANGED <<session, searchSessionId, url, effectDeps, lastClick,
                 chatVars>>

\* The page is opened at a URL that names a session.
OpenUrl(id) ==
  /\ url = ""
  /\ lastClick = "none"
  /\ url' = id
  /\ UNCHANGED <<sessionList, session, searchSessionId, effectDeps,
                 lastClick, chatVars>>

\* useState<Session[]>([]) of the canvas page, useState<Session | null>(null)
\* of the chat, and a URL without a sessionId parameter.
SessionInit ==
  /\ sessionList = <<>>
  /\ session = NullSession
  /\ searchSessionId = ""
  /\ url = ""
  /\ effectDeps = <<>>
  /\ lastClick = "none"

SessionNext ==
  \/ SessionEffect
  \/ \E id \in {"s1", "s2", "n1", "n2", "n3"} : ClickSelectSession(id)
  \/ OnClickNewChat
  \/ RouterSync
  \/ \E list \in SessionLists : CanvasFetched(list)
  \/ OpenUrl("s2")

----------------------------------------------------------------------------
(* The frontend *)

Init ==
  /\ ChatInit
  /\ TextareaInit
  /\ SocketInit
  /\ CanvasInit
  /\ ConfigsInit
  /\ PopbarInit
  /\ ResolutionInit
  /\ SessionInit
  /\ HostInit
  /\ ExportInit
  /\ FormInit
  /\ DeleteInit
  /\ BusInit
  /\ TurnsInit
  /\ ResizeInit
  /\ RouteInit

SpecChat ==
  Init /\ [][ChatNext
               /\ UNCHANGED <<socketVars, canvasVars, popbarVars,
                              resolutionVars,
                              sessionVars,
                              hostVars,
                              exportVars,
                              formVars,
                              deleteVars,
                              busVars,
                              turnVars,
                              resizeVars,
                              routeVars>>]_vars

SpecTextarea ==
  Init /\ [][TextareaNext
               /\ UNCHANGED <<socketVars, canvasVars, popbarVars,
                              resolutionVars,
                              sessionVars,
                              hostVars,
                              exportVars,
                              formVars,
                              deleteVars,
                              busVars,
                              turnVars,
                              resizeVars,
                              routeVars>>]_vars

SpecSocket ==
  Init /\ [][SocketNext
               /\ UNCHANGED <<chatVars, textareaVars, canvasVars, popbarVars,
                           resolutionVars,
                              sessionVars,
                              hostVars,
                              exportVars,
                              formVars,
                              deleteVars,
                              busVars,
                              turnVars,
                              resizeVars,
                              routeVars>>]_vars

SpecCanvas ==
  Init /\ [][CanvasNext
               /\ UNCHANGED <<chatVars, textareaVars, socketVars, popbarVars,
                           resolutionVars,
                              sessionVars,
                              hostVars,
                              exportVars,
                              formVars,
                              deleteVars,
                              busVars,
                              turnVars,
                              resizeVars,
                              routeVars>>]_vars

\* The pristine flag is shared by the canvas host and the chat: the scene
\* changes and pastes of a user together with session switches and sends.
PristineNext ==
  \/ /\ \/ \E kind \in PasteKinds : HandlePasteEvent(kind)
        \/ HandleDrop
        \/ \E c \in sizeChecks : SizeCheckFire(c)
        \/ UserDraw
        \/ ViewChange
        \/ UserClear
        \/ \E t \in saveTimers : SaveTimerFire(t)
        \/ CanvasTick
     /\ UNCHANGED <<chatVars, textareaVars>>
  \/ /\ \/ (\E s \in Sessions : SelectSession(s)) /\ UNCHANGED textareaVars
        \/ (\E s \in Sessions : HandleDone(s)) /\ UNCHANGED textareaVars
        \/ HandleSendPrompt
     /\ UNCHANGED canvasVars

SpecPristine ==
  Init /\ [][PristineNext
               /\ UNCHANGED <<socketVars, popbarVars, resolutionVars,
                              sessionVars,
                              hostVars,
                              exportVars,
                              formVars,
                              deleteVars,
                              busVars,
                              turnVars,
                              resizeVars,
                              routeVars>>]_vars

SpecPopbar ==
  Init /\ [][PopbarNext
               /\ UNCHANGED <<chatVars, textareaVars, canvasVars,
                              resolutionVars,
                              sessionVars,
                              hostVars,
                              exportVars,
                              formVars,
                              deleteVars,
                              busVars,
                              turnVars,
                              resizeVars,
                              routeVars>>]_vars

SpecSession ==
  Init /\ [][SessionNext
               /\ UNCHANGED <<textareaVars, socketVars, canvasVars,
                              popbarVars, resolutionVars,
                              hostVars,
                              exportVars,
                              formVars,
                              deleteVars,
                              busVars,
                              turnVars,
                              resizeVars,
                              routeVars>>]_vars

SpecScope ==
  Init /\ [][ScopeNext
               /\ UNCHANGED <<chatVars, textareaVars, socketVars, popbarVars,
                              resolutionVars, sessionVars,
                              exportVars,
                              formVars,
                              deleteVars,
                              busVars,
                              turnVars,
                              resizeVars,
                              routeVars>>]_vars

SpecExport ==
  Init /\ [][ExportNext
               /\ UNCHANGED <<chatVars, textareaVars, socketVars, popbarVars,
                              resolutionVars, sessionVars, hostVars,
                              formVars,
                              deleteVars,
                              busVars,
                              turnVars,
                              resizeVars,
                              routeVars>>]_vars

SpecForm ==
  Init /\ [][FormNext
               /\ UNCHANGED <<chatVars, textareaVars, socketVars, canvasVars,
                              popbarVars, resolutionVars, sessionVars,
                              hostVars, exportVars,
                              deleteVars,
                              busVars,
                              turnVars,
                              resizeVars,
                              routeVars>>]_vars

SpecDelete ==
  Init /\ [][DeleteNext
               /\ UNCHANGED <<chatVars, textareaVars, socketVars, canvasVars,
                              popbarVars, resolutionVars, sessionVars,
                              hostVars, exportVars, formVars,
                              busVars,
                              turnVars,
                              resizeVars,
                              routeVars>>]_vars

SpecBus ==
  Init /\ [][BusNext
               /\ UNCHANGED <<chatVars, textareaVars, socketVars, canvasVars,
                              popbarVars, resolutionVars, sessionVars,
                              hostVars, exportVars, formVars,
                              deleteVars,
                              turnVars,
                              resizeVars,
                              routeVars>>]_vars

SpecTurns ==
  Init /\ [][TurnsNext
               /\ UNCHANGED <<socketVars, canvasVars, popbarVars,
                              resolutionVars, sessionVars, hostVars,
                              exportVars, formVars, deleteVars,
                              busVars,
                              resizeVars,
                              routeVars>>]_vars

SpecResolution ==
  Init /\ [][ResolutionNext
               /\ UNCHANGED <<chatVars, textareaVars, socketVars,
                              popbarVars,
                              sessionVars,
                              hostVars,
                              exportVars,
                              formVars,
                              deleteVars,
                              busVars,
                              turnVars,
                              resizeVars,
                              routeVars>>]_vars

\* The popover and the dimension correction over one scene.
SpecResize ==
  Init /\ [][ResizeNext
               /\ UNCHANGED <<chatVars, textareaVars, socketVars,
                              popbarVars,
                              sessionVars,
                              hostVars,
                              exportVars,
                              formVars,
                              deleteVars,
                              busVars,
                              turnVars,
                              routeVars>>]_vars

\* The canvas route with the host it shows.
SpecRoute ==
  Init /\ [][RouteNext
               /\ UNCHANGED <<chatVars, textareaVars, socketVars, popbarVars,
                           resolutionVars,
                              sessionVars,
                              exportVars,
                              formVars,
                              deleteVars,
                              busVars,
                              turnVars,
                              resizeVars>>]_vars

----------------------------------------------------------------------------
(* Properties of the chat interface *)

RECURSIVE StringsUpTo(_)
\* The strings over Texts of length at most n.
StringsUpTo(n) ==
  IF n = 0 THEN {""}
  ELSE LET S == StringsUpTo(n - 1) IN S \cup {x \o c : x \in S, c \in Texts}

EndsWith(x, t) == \E p \in StringsUpTo(MaxText) : x = p \o t

DeltaTimers == {t \in timers : t.kind = "delta"}

\* C1: a delta for the active session sets pending to "text" and arms a
\* timer of 20 s; that timer is never cleared, runs down with time only, and
\* when it fires it resets pending to idle if pending is still "text" and
\* leaves every other pending state ("tool", "image", idle) unchanged.
C1_DeltaFailsafe ==
  [][ /\ \A s \in Sessions, x \in Texts :
           (HandleDelta(s, x) /\ ~OtherSession(s)) =>
             /\ pending' = "text"
             /\ [kind |-> "delta", remaining |-> 20000] \in timers'
      /\ \A t \in DeltaTimers :
           \/ t \in timers'
           \/ /\ t.remaining > 0
              /\ [t EXCEPT !.remaining = @ - TickMs] \in timers'
           \/ /\ t.remaining = 0
              /\ pending' = IF pending = "text" THEN "false" ELSE pending
    ]_vars

\* A delta's timer is due while pending is still "text".
C1_Witness ==
  /\ pending = "text"
  /\ \E t \in timers : t.kind = "delta" /\ t.remaining = 0

\* C2: in every state with pending non-idle a failsafe timer is armed that
\* resets this pending state when it fires, so that with no further event and
\* no user action pending returns to idle.
C2_StalledTurnRecovers ==
  pending # "false" =>
    \E t \in timers : \/ t.kind = "delta" /\ pending = "text"
                      \/ t.kind = "image" /\ pending = "image"

\* The (message, call) places of the timeline msgs holding tool call id.
ToolCallPlaces(msgs, id) ==
  {<<i, k>> \in (1..Len(msgs)) \X (1..MaxMessages) :
     /\ ~msgs[i].tool_calls.isNull
     /\ k <= Len(msgs[i].tool_calls.calls)
     /\ msgs[i].tool_calls.calls[k].id = id}

\* C7: the timeline never holds two tool calls with the same id.
C7_NoDuplicateToolCall ==
  \A id \in ToolCallIds : Cardinality(ToolCallPlaces(messages, id)) <= 1

\* C8: a delta with text x for the active session leaves the timeline ending
\* with an assistant message whose text ends with x, either the trailing
\* message extended or a new message appended, every other message unchanged.
C8_DeltaAccumulates ==
  [][ \A s \in Sessions, x \in Texts :
        (HandleDelta(s, x) /\ ~OtherSession(s)) =>
          /\ Len(messages') \in {Len(messages), Len(messages) + 1}
          /\ Last(messages').role = "assistant"
          /\ EndsWith(TrailingText(messages'), x)
          /\ \A i \in 1..Len(messages) : i < Len(messages') => messages'[i] = messages[i]
    ]_vars

\* C9: a tool-call-arguments event for the active session appends its
\* fragment to the arguments of every tool call with its id (so that the
\* arguments stay the concatenation of the fragments received), changes
\* nothing else of the timeline, and sets pending to "tool".
C9_ArgumentsAccumulate ==
  [][ \A s \in Sessions, id \in ToolCallIds, x \in Texts :
        (HandleToolCallArguments(s, id, x) /\ ~OtherSession(s)) =>
          /\ pending' = "tool"
          /\ Len(messages') = Len(messages)
          /\ \A i \in 1..Len(messages) :
               /\ messages'[i].role = messages[i].role
               /\ messages'[i].content = messages[i].content
               /\ messages'[i].tool_calls.isNull = messages[i].tool_calls.isNull
               /\ Len(messages'[i].tool_calls.calls) = Len(messages[i].tool_calls.calls)
               /\ \A k \in 1..Len(messages[i].tool_calls.calls) :
                    LET c == messages[i].tool_calls.calls[k]
                    IN messages'[i].tool_calls.calls[k] =
                         IF c.id = id THEN [c EXCEPT !.arguments = @ \o x] ELSE c
    ]_vars

Placeholder == [role |-> "assistant",
                content |-> [kind |-> "string", text |-> "", parts |-> <<>>],
                tool_calls |-> [isNull |-> TRUE, calls |-> <<>>]]

----------------------------------------------------------------------------
(* Properties of the realtime transport client *)

\* C3: the promise returned by a call of connect() is rejected at a
\* connect_error callback exactly when that callback is the 5th in a row on
\* the call's socket with no 'connect' callback in between, and not at an
\* earlier one; a 'connect' callback after fewer than 5 errors resolves the
\* promise and resets the reconnect-attempt counter to 0.
C3_ReconnectionBound ==
  [][ /\ (OnConnectError /\ promises[socket] = "pending") =>
           (promises'[socket] = "rejected" <=> failures' = 5)
      /\ (OnConnect /\ promises[socket] = "pending" /\ failures < 5) =>
           /\ promises'[socket] = "resolved"
           /\ reconnectAttempts' = 0
    ]_vars

\* The Event Bus topic of each known tag.
TopicOfTag ==
  [tag \in SessionEventType |->
     CASE tag = "delta" -> "Socket::Session::Delta"
       [] tag = "tool_call" -> "Socket::Session::ToolCall"
       [] tag = "tool_call_arguments" -> "Socket::Session::ToolCallArguments"
       [] tag = "tool_call_progress" -> "Socket::Session::ToolCallProgress"
       [] tag = "image_generated" -> "Socket::Session::ImageGenerated"
       [] tag = "all_messages" -> "Socket::Session::AllMessages"
       [] tag = "done" -> "Socket::Session::Done"
       [] tag = "error" -> "Socket::Session::Error"
       [] tag = "info" -> "Socket::Session::Info"
       [] tag = "layer_added" -> "Socket::Session::LayerAdded"]

\* C4 as stated: every session_update frame with a known tag makes exactly
\* one Event Bus emission, on the topic of the tag with the frame as payload,
\* and a frame with an unrecognized type makes none.
C4_RoutingAsStated ==
  lastFrame # NoFrame =>
    IF lastFrame.type \in SessionEventType
    THEN emitted = <<[topic |-> TopicOfTag[lastFrame.type], payload |-> lastFrame]>>
    ELSE emitted = <<>>

\* C4: a session_update frame that carries a session id and a known tag makes
\* exactly one Event Bus emission, on the topic of the tag with the frame
\* itself as payload; a frame with an unrecognized type, and a frame without
\* a session id whatever its type, makes no Event Bus emission.
C4_Routing ==
  lastFrame # NoFrame =>
    IF lastFrame.type \in SessionEventType /\ lastFrame.session_id # ""
    THEN emitted = <<[topic |-> TopicOfTag[lastFrame.type], payload |-> lastFrame]>>
    ELSE emitted = <<>>

\* A frame with a known tag and a session id has been routed.
C4_Witness ==
  /\ lastFrame.type = "tool_call_progress"
  /\ lastFrame.session_id = "s1"
  /\ Len(emitted) = 1

----------------------------------------------------------------------------
(* Properties of the canvas host *)

\* The ids of the elements els.
IdsOf(els) == {els[i].id : i \in 1..Len(els)}

\* C5: whatever the interleaving of image-generated and layer-added events
\* and of the insertions suspended at their await, the scene's element list
\* never holds two elements with the same id, and an insertion of an element
\* whose id is in the scene, at once or on resuming, leaves the element list
\* unchanged.
C5_DuplicateInsertionGuard ==
  [][ /\ Cardinality(IdsOf(sceneElements')) = Len(sceneElements')
      /\ \A ins \in insertions :
           (InsertResume(ins) /\ ins.element.id \in IdsOf(sceneElements)) =>
             sceneElements' = sceneElements
      /\ \A c \in CanvasIds, p \in ImagePayloads :
           ( /\ CanvasHandleImageGenerated(c, p) \/ HandleLayerAdded(c, p)
             /\ p.element.id \in IdsOf(sceneElements) ) =>
             sceneElements' = sceneElements
    ]_vars

\* The scene holds an element while an insertion of an element with its id,
\* delivered on the other channel, is suspended at its await.
C5_Witness ==
  \E ins \in insertions :
    /\ ins.via = "layer_added"
    /\ \E i \in 1..Len(sceneElements) : sceneElements[i] = ins.element

\* The scene as of the last change notification.
LastChange == [elements |-> sceneElements, appState |-> appState,
               files |-> sceneFiles]

----------------------------------------------------------------------------
(* Properties of the textarea *)

\* C11: while pending is not idle, or while no text model is selected, the
\* send action leaves the prompt text, the attached images and the timeline
\* unchanged and issues neither a send-messages nor a create-canvas call.
C11_SendGuard ==
  [][ (HandleSendPrompt /\ (pending # "false" \/ textModel = NoModel)) =>
        /\ prompt' = prompt
        /\ images' = images
        /\ messages' = messages
        /\ issued' = <<>>
    ]_vars

\* A turn is pending while a prompt is typed and an image attached.
C11_Witness ==
  /\ pending = "tool"
  /\ prompt = "a"
  /\ images # <<>>
  /\ sessionId # NoSession

\* C12: activating the stop control while a turn is pending calls the
\* cancel-chat API for the active session, and when that call settles,
\* resolved or rejected, pending becomes idle.
C12_CancelResetsPending ==
  [][ /\ (TextareaHandleCancelChat /\ sessionId # NoSession) =>
           /\ Len(issued') = 1
           /\ issued'[1].api = "cancel_chat"
           /\ issued'[1].sessionId = sessionId
      /\ \A o \in {"resolved", "rejected"} :
           CancelChatSettled(o) => pending' = "false"
    ]_vars

----------------------------------------------------------------------------
(* Further properties of the chat interface *)

\* C13: a done event for the active session sets pending to idle whatever
\* pending was, so does an error event, and an info event changes neither
\* pending nor the timeline.
C13_TerminalEvents ==
  [][ /\ \A s \in Sessions :
           (HandleDone(s) /\ (s = "" \/ s = sessionId)) => pending' = "false"
      /\ \A s \in Sessions : HandleError(s) => pending' = "false"
      /\ \A s \in Sessions :
           HandleInfo(s) => pending' = pending /\ messages' = messages
    ]_vars

\* Image generation is pending in an active session, its failsafe timer
\* still running: a done or error event ends the turn from here.
C13_Witness ==
  /\ pending = "image"
  /\ sessionId # NoSession
  /\ \E t \in timers : t.kind = "image" /\ t.remaining > 0

\* C14: the response of a history fetch started for a session that is no
\* longer the active one never replaces the timeline, so that once all
\* fetches have completed the timeline is the history fetched for the active
\* session.
C14_StaleFetchDiscarded ==
  [][ \A s \in Sessions, h \in Histories :
        (InitChatDone(s, h) /\ s # sessionId) => messages' = messages
    ]_vars

----------------------------------------------------------------------------
(* Further properties of the canvas host *)

OffBy(a, b) == a - b > 5 \/ b - a > 5

\* An image element whose file is among fs and whose width or height is off
\* the natural size of that file's image.
Misplaced(el, fs) ==
  /\ el.type = "image"
  /\ el.fileId \in fs
  /\ OffBy(el.width, 100) \/ OffBy(el.height, 100)

Measured(els, fs, recent) ==
  IF /\ LatestImage(els) # 0
     /\ els[LatestImage(els)].id # recent
     /\ els[LatestImage(els)].fileId \in fs
  THEN {[elements |-> els, latestImage |-> els[LatestImage(els)]]}
  ELSE {}

----------------------------------------------------------------------------
(* Further properties of the realtime transport client *)

\* The lifecycle topic of each status of a split-layers task.
TopicOfStatus ==
  [status \in TaskStatuses |->
     CASE status = "pending" -> "Canvas::SplitLayersStarted"
       [] status = "running" -> "Canvas::TaskProgress"
       [] status = "completed" -> "Canvas::SplitLayersSuccess"
       [] status = "failed" -> "Canvas::SplitLayersError"
       [] status = "cancelled" -> "Canvas::SplitLayersCancelled"
       [] OTHER -> "Canvas::TaskProgress"]

\* C17: a task_notification frame of type split_layers_success emits exactly
\* a split-layers-success event and a fit-view request for the frame's canvas
\* id; otherwise a frame of task type split_layers emits exactly one event,
\* on the topic of its status (any other status: progress); a frame of any
\* other task type emits exactly one generic task-notification event.
C17_TaskNotificationDispatch ==
  lastTask # NoTask =>
    IF lastTask.type = "split_layers_success"
    THEN emitted =
           <<[topic |-> "Canvas::SplitLayersSuccess", payload |-> lastTask],
             [topic |-> "Canvas::AdjustView",
              payload |-> [canvas_id |-> lastTask.canvas_id]]>>
    ELSE IF lastTask.task_type = "split_layers"
         THEN emitted = <<[topic |-> TopicOfStatus[lastTask.status],
                           payload |-> lastTask]>>
         ELSE emitted = <<[topic |-> "Task::Notification",
                           payload |-> lastTask]>>

\* A split-layers frame with the status failed has been dispatched.
C17_Witness ==
  /\ lastTask.type = "task_update"
  /\ lastTask.task_type = "split_layers"
  /\ lastTask.status = "failed"
  /\ Len(emitted) = 1

\* C19: at most one socket created by the manager is open at any time, and
\* it is the socket the manager holds; connect() disconnects the socket held
\* before, and disconnect() leaves the manager with no socket and connected
\* false, a repeated disconnect() changing nothing further.
C19_SingleConnection ==
  [][ /\ Cardinality(openSockets') <= 1
      /\ openSockets' = IF socket' = 0 THEN {} ELSE {socket'}
      /\ (Connect /\ socket # 0) => socket \notin openSockets'
      /\ Disconnect =>
           /\ socket' = 0
           /\ connected' = FALSE
           /\ socket = 0 =>
                UNCHANGED <<socket, socketState, failures, connected,
                            reconnectAttempts, promises, openSockets>>
    ]_vars

\* A second connect() has replaced a socket that was connected.
C19_Witness ==
  /\ socket = 2
  /\ openSockets = {2}
  /\ promises[1] = "resolved"

\* C20: ping(data) sends a 'ping' frame exactly when the socket held is
\* connected (its 'connect' callback has run and no disconnect, connect_error
\* or replacement of the socket has followed), and changes no state of the
\* manager; no other step sends a frame.
C20_PingWhileConnected ==
  [][ /\ \A data \in PingData : Ping(data) =>
           /\ sent' = IF socket # 0 /\ socketState = "connected"
                      THEN <<[event |-> "ping", data |-> data]>> ELSE <<>>
           /\ UNCHANGED <<socket, socketState, failures, connected,
                          reconnectAttempts, promises, openSockets>>
      /\ sent' # <<>> => \E data \in PingData : Ping(data)
    ]_vars

\* A heartbeat has been sent on a connection that had been re-established.
C20_Witness ==
  /\ Len(sent) = 1
  /\ socketState = "connected"
  /\ socket = 2

----------------------------------------------------------------------------
(* Properties of the selection pop-toolbar *)

\* The topics of the lifecycle of a split-layers task.
LifecycleTopics ==
  {"Canvas::SplitLayersStarted", "Canvas::TaskProgress",
   "Canvas::SplitLayersSuccess", "Canvas::SplitLayersError",
   "Canvas::SplitLayersCancelled"}

\* C18: once a split-layers request has been submitted for the canvas, every
\* lifecycle event that reaches the Event Bus results in a toast if it is for
\* that canvas, and in none if it is for another canvas.
C18_LifecycleToasts ==
  [][ \A data \in TaskNotificationFrames :
        (submitted /\ PopbarOnTaskNotification(data)) =>
          \A i \in 1..Len(emitted') :
            emitted'[i].topic \in LifecycleTopics =>
              (toasts' # <<>> <=> emitted'[i].payload.canvas_id = "c1")
    ]_vars

----------------------------------------------------------------------------
(* Properties of the resolution display *)

\* C21: opening the popover stores the ratio R = width / height of the
\* selected image; with keepRatio enabled, entering a positive width W sets
\* the height input to round(W / R) and entering a positive height H sets the
\* width input to round(H * R), halves rounding up; with keepRatio disabled,
\* editing one input never changes the other.
C21_AspectRatioLock ==
  [][ /\ HandleEditingChange(TRUE) =>
           LET sel == FirstSelectedImage(sceneElements,
                                         appState.selectedElementIds)
           IN originalRatio' = [width |-> sel.width, height |-> sel.height]
      /\ \A value \in TypedInputs : HandleWidthChange(value) =>
           /\ newWidth' = value
           /\ (keepRatio /\ value.kind = "number" /\ value.number > 0) =>
                newHeight' =
                  [kind |-> "number",
                   number |-> (2 * value.number * originalRatio.height
                                 + originalRatio.width)
                              \div (2 * originalRatio.width)]
           /\ ~keepRatio => newHeight' = newHeight
      /\ \A value \in TypedInputs : HandleHeightChange(value) =>
           /\ newHeight' = value
           /\ (keepRatio /\ value.kind = "number" /\ value.number > 0) =>
                newWidth' =
                  [kind |-> "number",
                   number |-> (2 * value.number * originalRatio.width
                                 + originalRatio.height)
                              \div (2 * originalRatio.height)]
           /\ ~keepRatio => newWidth' = newWidth
    ]_vars

\* With the ratio 50 / 100 locked, the height 3 has been entered and the
\* width input shows round(1.5) = 2.
C21_Witness ==
  /\ isEditing
  /\ keepRatio
  /\ originalRatio = [width |-> 50, height |-> 100]
  /\ newHeight = [kind |-> "number", number |-> 3]
  /\ newWidth = [kind |-> "number", number |-> 2]

\* C22: apply with a positive width and height sets exactly those two fields
\* on the image element the popover was opened for, leaves every other
\* element unchanged and closes the popover; cancel, and apply with an empty
\* or non-positive value, leave the scene unchanged.
C22_ApplyCancel ==
  [][ /\ (ApplyResize /\ newWidth.kind = "number" /\ newWidth.number > 0
            /\ newHeight.kind = "number" /\ newHeight.number > 0) =>
           /\ isEditing' = FALSE
           /\ Len(sceneElements') = Len(sceneElements)
           /\ \A i \in 1..Len(sceneElements) :
                sceneElements'[i] =
                  IF sceneElements[i].id = openedFor
                  THEN [sceneElements[i] EXCEPT !.width = newWidth.number,
                                                !.height = newHeight.number]
                  ELSE sceneElements[i]
      /\ (ApplyResize /\ ~(newWidth.kind = "number" /\ newWidth.number > 0
                            /\ newHeight.kind = "number"
                            /\ newHeight.number > 0)) =>
           sceneElements' = sceneElements
      /\ CancelResize => sceneElements' = sceneElements
    ]_vars

\* C23: while the popover is open, no change notification of the engine,
\* whether the selection or the scene changed, modifies the width input, the
\* height input or the stored ratio.
C23_EditProtection ==
  [][ \A els \in ResolutionScenes, ids \in SUBSET {"e1", "e2", "u1"} :
        (isEditing /\ EngineChange(els, ids)) =>
          /\ newWidth' = newWidth
          /\ newHeight' = newHeight
          /\ originalRatio' = originalRatio
    ]_vars

\* The popover was opened for the image 105 wide and the engine has since
\* reported the selection of the image 50 wide: the inputs are as they were.
C23_Witness ==
  /\ isEditing
  /\ resolutionInfo.width = 50
  /\ newWidth = [kind |-> "number", number |-> 105]
  /\ originalRatio = [width |-> 105, height |-> 100]

----------------------------------------------------------------------------
(* Properties of the session selection *)

----------------------------------------------------------------------------
(* Properties of the canvas id of the canvas host *)

\* C25: an image-generated or layer-added event whose canvas id is not the
\* canvas id of the canvas host leaves the elements and the files of the
\* scene unchanged and starts no insertion, also after the canvas id of the
\* mounted host has changed.
C25_CanvasScoping ==
  [][\A c \in CanvasIds, p \in ImagePayloads :
       ( /\ CanvasHandleImageGenerated(c, p) \/ HandleLayerAdded(c, p)
         /\ c # canvasId )
       => /\ sceneElements' = sceneElements
          /\ sceneFiles' = sceneFiles
          /\ insertions' = insertions]_vars

----------------------------------------------------------------------------
(* Properties of the export of the selected images *)

\* The selected image elements of the scene, in the order of the selection.
SelectedInSelectionOrder ==
  LET ids == SelectSeq(selectionOrder,
                       LAMBDA id : \E i \in 1..Len(sceneElements) :
                                     /\ sceneElements[i].id = id
                                     /\ sceneElements[i].type = "image")
  IN [k \in 1..Len(ids) |->
        sceneElements[CHOOSE i \in 1..Len(sceneElements) :
                        sceneElements[i].id = ids[k]]]

\* The selected image elements of the scene, in the order of the scene.
SelectedInSceneOrder ==
  SelectSeq(sceneElements,
            LAMBDA el : /\ el.type = "image"
                        /\ \E i \in 1..Len(selectionOrder) :
                             selectionOrder[i] = el.id)

\* C26 as stated: the export of one selected image downloads the one file
\* image.png; of N >= 2 selected images, the one archive images.zip whose N
\* entries image-0.png ... image-(N-1).png hold the selected images in
\* selection order; with no image selected nothing is downloaded and the
\* 'no images selected' toast is shown.
C26_PngExportAsStated ==
  [][\A failed \in SUBSET (1..MaxElements) :
       HandleExportImages(failed) =>
         LET sel == SelectedInSelectionOrder
         IN /\ Len(sel) = 0 =>
                 /\ downloads' = <<>>
                 /\ \E i \in 1..Len(exportToasts') :
                      exportToasts'[i] = [kind |-> "error",
                                          title |-> "noImagesSelected"]
            /\ Len(sel) = 1 =>
                 downloads' = <<[name |-> "image.png",
                                 entries |-> <<sel[1].fileId>>]>>
            /\ Len(sel) >= 2 =>
                 /\ Len(downloads') = 1
                 /\ downloads'[1].name = "images.zip"
                 /\ Len(downloads'[1].entries) = Len(sel)
                 /\ \A i \in 1..Len(sel) :
                      downloads'[1].entries[i] =
                        [name |-> EntryName(i - 1), data |-> sel[i].fileId]
    ]_vars

\* C26: when the file of every selected image is among the files of the scene
\* and every download succeeds, the export of one selected image downloads the
\* one file image.png, and of N >= 2 selected images the one archive
\* images.zip whose N entries image-0.png ... image-(N-1).png hold the selected
\* images in the order of the elements of the scene; when a download fails
\* nothing is downloaded; with no image selected nothing is downloaded and the
\* 'no images selected' toast is shown.
C26_PngExport ==
  [][\A failed \in SUBSET (1..MaxElements) :
       ( /\ HandleExportImages(failed)
         /\ \A i \in 1..Len(SelectedInSceneOrder) :
              SelectedInSceneOrder[i].fileId \in sceneFiles ) =>
         LET sel == SelectedInSceneOrder
         IN /\ Len(sel) = 0 =>
                 /\ downloads' = <<>>
                 /\ \E i \in 1..Len(exportToasts') :
                      exportToasts'[i] = [kind |-> "error",
                                          title |-> "noImagesSelected"]
            /\ (Len(sel) >= 1 /\ failed # {}) => downloads' = <<>>
            /\ (Len(sel) = 1 /\ failed = {}) =>
                 downloads' = <<[name |-> "image.png",
                                 entries |-> <<sel[1].fileId>>]>>
            /\ (Len(sel) >= 2 /\ failed = {}) =>
                 /\ Len(downloads') = 1
                 /\ downloads'[1].name = "images.zip"
                 /\ Len(downloads'[1].entries) = Len(sel)
                 /\ \A i \in 1..Len(sel) :
                      downloads'[1].entries[i] =
                        [name |-> EntryName(i - 1), data |-> sel[i].fileId]
    ]_vars

\* Two images were selected against the order of the scene and exported as
\* one archive of two entries.
C26_Witness ==
  /\ selectionOrder = <<"e2", "e1">>
  /\ Len(sceneElements) >= 2
  /\ sceneElements[1].id = "e1"
  /\ Len(downloads) = 1
  /\ downloads[1].name = "images.zip"
  /\ Len(downloads[1].entries) = 2

----------------------------------------------------------------------------
(* Properties of the project-brief form *)

\* C27: a submit with the company name or the product name empty after
\* trimming calls the submit callback not at all, raises the validation toast
\* and keeps the data of the form and its open state; a submit with both
\* non-empty calls the callback once with the data entered and resets the
\* form to its defaults (image count 1, every text empty); cancel resets the
\* form and does not call the callback.
C27_ValidationGate ==
  [][ /\ HandleFormSubmit =>
           IF \/ Trim(formData.companyName) = <<>>
              \/ Trim(formData.productName) = <<>>
           THEN /\ onSubmitCalls' = <<>>
                /\ formToasts' = <<[kind |-> "error",
                                    title |-> "validationError"]>>
                /\ formData' = formData
                /\ formOpen' = formOpen
           ELSE /\ onSubmitCalls' = <<formData>>
                /\ formData'.imageCount = 1
                /\ \A field \in FormFields \ {"imageCount"} :
                     formData'[field] = <<>>
      /\ HandleFormCancel =>
           /\ onSubmitCalls' = <<>>
           /\ formData'.imageCount = 1
           /\ \A field \in FormFields \ {"imageCount"} :
                formData'[field] = <<>>
    ]_vars

\* A form with a company name, a product name of blanks only and two images
\* was submitted: the validation toast is shown and the form is kept open.
C27_Witness ==
  /\ formToasts = <<[kind |-> "error", title |-> "validationError"]>>
  /\ formOpen
  /\ formData.companyName = <<"a">>
  /\ formData.productName = <<" ", " ">>
  /\ formData.imageCount = 2

----------------------------------------------------------------------------
(* Properties of the deletion of a canvas *)

\* C28: the delete-canvas API is called only by a confirmation in the dialog
\* and only for the canvas whose delete control opened the dialog; a call that
\* fails, rejected or answered with a non-success body, shows the failure
\* toast, no success toast, and does not invalidate the canvas list; and
\* whatever the outcome the dialog is closed and no deletion target is left.
C28_CanvasDeletion ==
  [][ /\ deleteIssued' # <<>> =>
           /\ ConfirmDelete
           /\ deleteDialogOpen
           /\ deleteIssued' = <<deleteOpenedFor>>
      /\ \A id \in CanvasIds, outcome \in {"deleted", "error_body", "rejected"} :
           (DeleteSettled(id, outcome) /\ deleteOutcome' = outcome) =>
             /\ outcome # "deleted" =>
                  /\ deleteToasts' = <<[kind |-> "error",
                                        title |-> "failedToDelete"]>>
                  /\ ~invalidated'
             /\ ~deleteDialogOpen'
             /\ canvasToDelete' = "null"
    ]_vars

----------------------------------------------------------------------------
(* Properties of the Event Bus subscriptions *)

\* C29: whatever the mounts, renders and unmounts of the chat interface, the
\* canvas host, the chat textarea and the pop-toolbar, every topic holds at
\* most one handler of a mounted component, that of its current instance,
\* and none of a component that is not mounted.
C29_SymmetricSubscription ==
  \A c \in Components, topic \in BusTopics :
    LET own == {i \in 1..Len(busHandlers[topic]) :
                  busHandlers[topic][i].component = c}
    IN /\ Cardinality(own) <= 1
       /\ ~isMounted[c] => own = {}
       /\ \A i \in own : busHandlers[topic][i].mount = mounts[c]

\* The chat was mounted, unmounted and mounted again and has rendered twice
\* since, beside a mounted canvas host that has rendered twice.
C29_Witness ==
  /\ isMounted["chat"] /\ mounts["chat"] = 2 /\ renders["chat"] = 2
  /\ isMounted["host"] /\ renders["host"] = 2
  /\ Len(busHandlers["Socket::Session::ImageGenerated"]) = 2

----------------------------------------------------------------------------
(* Properties of the turns of the chat *)

\* C30: the 20 s timer of a delta resets pending from "text" to idle only
\* when it is the timer of the delta handled last and pending has been "text"
\* without a break since that delta: not when further deltas arrived after
\* it was armed, and not when pending was reset and set to "text" again by a
\* send since.
C30_NoTimerLeak ==
  [][\A t \in timers :
       ( /\ TimerFire(t)
         /\ t.kind = "delta"
         /\ pending = "text"
         /\ pending' = "false" )
       => /\ sinceDelta
          /\ \A u \in timers : u.kind = "delta" => u.remaining = 0
    ]_vars

----------------------------------------------------------------------------
(* Properties of the session filter of the chat interface *)

\* C31: a delta, tool-call, tool-call-arguments, all-messages, done, error or
\* image-generated event whose session id is not the id of the active session
\* changes neither the message timeline nor pending.
C31_SessionIsolation ==
  [][\A s \in Sessions :
       ( /\ s # sessionId
         /\ \/ \E t \in Texts : HandleDelta(s, t)
            \/ \E id \in ToolCallIds : HandleToolCall(s, id)
            \/ \E id \in ToolCallIds, t \in Texts :
                 HandleToolCallArguments(s, id, t)
            \/ \E h \in Histories : HandleAllMessages(s, h)
            \/ HandleDone(s)
            \/ HandleError(s)
            \/ \E c \in CanvasIds : HandleImageGenerated(c, s) )
       => /\ messages' = messages
          /\ pending' = pending
    ]_vars

----------------------------------------------------------------------------
(* Properties of the dimension correction of the canvas host *)

\* C32: when the image-load callback of the dimension correction rewrites the
\* scene, every element of the scene at that moment is still present
\* afterwards, and only the width and height of the corrected element change.
C32_NoLostSceneUpdate ==
  [][\A l \in imageLoads :
       ImageLoaded(l) /\ SizeDiffers(l.latestImage)
       => /\ Len(sceneElements') = Len(sceneElements)
          /\ \A i \in 1..Len(sceneElements) :
               sceneElements'[i] =
                 IF sceneElements[i].id = l.latestImage.id
                 THEN [sceneElements[i] EXCEPT !.width = NaturalWidth,
                                               !.height = NaturalHeight]
                 ELSE sceneElements[i]
    ]_vars

\* C33: the image-load callback of a run of the dimension correction that
\* started after a user applied a size to an element leaves the width and the
\* height of that element as they are.
C33_ResizePersists ==
  [][\A l \in imageLoads, u \in userSized :
       ImageLoaded(l) /\ l \notin u.before
       => \A i \in 1..Len(sceneElements) :
            sceneElements[i].id = u.id
            => \E j \in 1..Len(sceneElements') :
                 /\ sceneElements'[j].id = sceneElements[i].id
                 /\ sceneElements'[j].width = sceneElements[i].width
                 /\ sceneElements'[j].height = sceneElements[i].height
    ]_vars

----------------------------------------------------------------------------
(* Properties of the canvas route *)

\* C34: every save-canvas call carries, under canvas id C, a scene that was
\* armed for saving while the host showed the data loaded by C's fetch: none
\* is issued for a canvas whose fetch failed, and none carries the scene of
\* another canvas.
C34_SavesCarryRightCanvas ==
  \A i \in 1..Len(saved) :
    [canvasId |-> saved[i].canvasId, elements |-> saved[i].elements]
      \in originated

\* C35: the result or the failure of a fetch made by an earlier run of the
\* effect, or settled after the route was unmounted, sets neither the canvas
\* data, the name, the session list, the error nor the loading flag.
C35_StaleFetchDiscarded ==
  [][\A f \in canvasFetches, outcome \in FetchOutcomes :
       FetchSettled(f, outcome) /\ (f.run # effectRun \/ ~routeMounted)
       => UNCHANGED <<canvas, canvasName, canvasSessionList, error, isLoading>>
    ]_vars

\* The fetch of an earlier run has settled after the fetch of the current
\* id, and the route shows what the current id's fetch returned.
C35_Witness ==
  /\ routeMounted
  /\ lastSettled # NoFetch
  /\ lastSettled.run < effectRun
  /\ lastSettled.id # routeId
  /\ canvasFetches = {}
  /\ canvas = GetCanvas(routeId)
  /\ ~isLoading

----------------------------------------------------------------------------
(* Properties of the connection state of the transport client *)

\* C36: while isConnected() is true, getReconnectAttempts() is 0 and
\* getSocket() is not null, so isMaxReconnectAttemptsReached() is false.
C36_ConnectionState ==
  connected => /\ reconnectAttempts = 0
               /\ socket # 0
               /\ ~IsMaxReconnectAttemptsReached

\* The client is connected through a socket whose connection attempts had
\* failed often enough to reject the promise of its connect() call.
C36_Witness ==
  /\ connected
  /\ socket # 0
  /\ promises[socket] = "rejected"

=============================================================================
